---- MODULE Spec2Model ----
(***************************************************************************)
(* A model of go-http-playback-proxy: the Replayer (pkg/plugins/playback.go *)
(* with the loader of pkg/inventory), the hot-reload watcher                *)
(* (cmd/http-playback-proxy/proxy.go) and the Recorder                      *)
(* (pkg/plugins/recording.go, recording.go).                                *)
(*                                                                          *)
(* Durations of the Replayer are counted in microseconds (Microsecond = 1). *)
(***************************************************************************)
EXTENDS Integers, Sequences, FiniteSets, TLC

NULL == "nil"

\* ---------------------------------------------------------------- bounds
Flows == {1}
URLs == {"http://h/a", "http://h/b"}
Methods == {"GET"}
ChunkSize == 2
TimeStep == 50000
MaxTime == 250000
MaxObjects == 4

\* ------------------------------------------------------- time.Duration
Microsecond == 1
Millisecond == 1000 * Microsecond
Second == 1000 * Millisecond

\* ------------------------------------------------------------- helpers
Min(a, b) == IF a < b THEN a ELSE b

RECURSIVE Concat(_)
Concat(chunks) ==
    IF chunks = <<>> THEN <<>>
    ELSE Head(chunks).Chunk \o Concat(Tail(chunks))

\* fmt.Sprintf("%s:%s", method, url)
Key(method, url) == method \o ":" \o url

EmptyMap == [k \in {} |-> NULL]

\* ------------------------------------------------- inventory on disk
\* The manifests an operator (or the recorder) leaves under the inventory
\* directory: Resources carry unique (Method, URL) keys.  An optional field
\* (*float64) is <<>> when nil and <<v>> when set.
ResourceVersions ==
    { [TTFBMS |-> 100, MBPS |-> <<>>, ContentUTF8 |-> <<1, 2, 3>>],
      [TTFBMS |-> 0,   MBPS |-> <<30000>>, ContentUTF8 |-> <<4, 5, 6>>] }

Resource(url, v) ==
    [Method |-> "GET", URL |-> url, TTFBMS |-> v.TTFBMS, MBPS |-> v.MBPS,
     ContentUTF8 |-> v.ContentUTF8]

Manifests ==
    {<<>>}
    \cup { <<Resource("http://h/a", v)>> : v \in ResourceVersions }
    \cup { <<Resource("http://h/a", v), Resource("http://h/b", w)>> :
              v \in ResourceVersions,
              w \in {[TTFBMS |-> 50, MBPS |-> <<>>, ContentUTF8 |-> <<>>]} }

DiskStates ==
    {[state |-> "missing", resources |-> <<>>],
     [state |-> "corrupt", resources |-> <<>>]}
    \cup { [state |-> "ok", resources |-> m] : m \in Manifests }

\* ------------------------------------------------------ chunk planner
\* createBodyChunks: total transfer time from Mbps, else 100 ms.  The
\* quotient totalBits / (Mbps * 1024 * 1024) is taken one divisor at a time
\* (the same floor) to stay inside the checker's integers.
TotalTransferTime(totalSize, mbps) ==
    IF mbps # <<>> /\ mbps[1] > 0
    THEN (((totalSize * 8 * Second) \div 1024) \div 1024) \div mbps[1]
    ELSE 100 * Millisecond

RECURSIVE ChunksFrom(_, _, _, _)
ChunksFrom(body, i, ttfbms, mbps) ==
    LET totalSize == Len(body)
        end == Min(i + ChunkSize, totalSize)
        chunkTime == (TotalTransferTime(totalSize, mbps) * end) \div totalSize
    IN  IF i >= totalSize THEN <<>>
        ELSE <<[Chunk |-> SubSeq(body, i + 1, end),
                TargetOffset |-> ttfbms * Millisecond + chunkTime]>>
             \o ChunksFrom(body, i + ChunkSize, ttfbms, mbps)

\* mutant: only whole chunks are cut, the short tail of the body is left out
createBodyChunksWholeOnly(body, resource) ==
    LET whole == SubSeq(body, 1, Len(body) - (Len(body) % ChunkSize))
    IN  IF Len(whole) = 0 THEN <<>>
        ELSE ChunksFrom(whole, 0, resource.TTFBMS, resource.MBPS)

createBodyChunks(body, resource) ==
    IF Len(body) = 0 THEN <<>>
    ELSE ChunksFrom(body, 0, resource.TTFBMS, resource.MBPS)

\* convertResourceToTransaction for a Resource whose body is inline UTF-8
\* text without Content-Encoding (compressContent returns it as it is)
convertResourceToTransaction(resource) ==
    [Method |-> resource.Method,
     URL    |-> resource.URL,
     TTFB   |-> resource.TTFBMS * Millisecond,
     Chunks |-> createBodyChunks(resource.ContentUTF8, resource)]

\* mutant: a resource whose content is empty is skipped like one that failed
\* to convert
LoadPlaybackTransactionsSkipEmpty(resources) ==
    LET kept == SelectSeq(resources, LAMBDA r : r.ContentUTF8 # <<>>)
    IN  [i \in 1..Len(kept) |-> convertResourceToTransaction(kept[i])]

\* LoadPlaybackTransactions: one transaction per resource, in manifest order
LoadPlaybackTransactions(resources) ==
    [i \in 1..Len(resources) |-> convertResourceToTransaction(resources[i])]

\* a heap cell that holds no transaction
NoTransaction == [Method |-> "", URL |-> "", TTFB |-> 0, Chunks |-> <<>>]

\* --------------------------------------------------------------- state
VARIABLES
    now,             \* time.Now(), microseconds since the proxy started
    disk,            \* <inventoryDir>/inventory.json
    transactionMap,  \* PlaybackPlugin.transactionMap: key -> *PlaybackTransaction
    txHeap,          \* the PlaybackTransaction objects the pointers refer to
    mutexWriter,     \* PlaybackPlugin.mutex held by Lock()
    mutexReaders,    \* flows holding PlaybackPlugin.mutex by RLock()
    wpc,             \* position of the watcher goroutines
    loaded,          \* loadInventory: the slice LoadPlaybackTransactions returned
    loadIdx,         \* loadInventory: position of the range loop over it
    reloadErr,       \* the error ReloadInventory returns
    stableMap,       \* history: the map's contents when Lock() was last released
    flow,            \* per client flow: the Request hook's locals and f.Response
    \* the watcher (startPlaybackProxyWithWatch)
    events,          \* watcher.Events: file events not yet received
    reloadMutex,     \* the goroutine holding reloadMutex, or "none"
    reloadPending,   \* reloadPending
    sinceLastReload, \* time.Since(lastReloadTime) in ms, cut off at DebounceWindow
    tickIn,          \* ms until the ticker's next tick
    tickReady,       \* a tick waits in ticker.C
    unserved,        \* history: an event was received and no reload began since
    sinceReloadEnd,  \* history: ms since ReloadInventory last returned, cut off
    gapAtStart,      \* history: sinceReloadEnd when the latest reload began
    changesLeft,     \* file changes the operator has yet to make
    \* the Recorder (RecordingPlugin)
    transactions,    \* RecordingPlugin.transactions: the entries after the
                     \* first recordedBefore ones
    recordedBefore,  \* number of entries at the head of the list, recorded
                     \* with their responses before the flows modelled here
    recMutex,        \* the flow holding RecordingPlugin.mutex by Lock(), or 0
    rflow,           \* per recorded flow: the hooks' locals
    requestsLeft,    \* requests the clients have yet to send
    \* the inventory the Recorder writes (PersistenceManager)
    manifest,        \* <BaseDir>/inventory.json: its Resources
    contents,        \* <BaseDir>/contents: file path -> bytes written
    resourceMap,     \* SaveRecordedTransactions: resourceMap, key -> Resource
    savePc,          \* SaveRecordedTransactions: "idle" or inside its "loop"
    batchLeft,       \* SaveRecordedTransactions: transactions yet to convert
    storeOp,         \* history: the latest operation on the inventory
    \* RecordingPlugin.SaveInventory
    saveCopy,        \* SaveInventory: its copy of p.transactions
    saverPc,         \* SaveInventory: "idle", or "persist" once it has the copy
    cancelledAt,     \* per flow: Connected, or the first chunk whose wait had not begun when its client went away
    dirs,            \* the directories that exist, the inventory directory and those beneath it
    watched,         \* the directories added to the fsnotify watcher
    upstream,        \* per flow: what proxyUpstream met and the proxy.Response it built
    codecIn,         \* path codec: the (method, URL) handed to MethodURLToFilePath
    codecPath,       \* path codec: the file path it returned
    codecOut,        \* path codec: what FilePathToMethodURL made of that path
    codecPc,         \* path codec: "start", "encoded", "decoded" or "failed"
    planBody,        \* chunk planner: the body handed to createBodyChunks
    planResource,    \* chunk planner: the Resource handed to it
    planChunks,      \* chunk planner: the chunks it returned
    planPc,          \* chunk planner: "idle", "start" or "planned"
    convResource,    \* conversion: the Resource read from the inventory
    convFiles,       \* conversion: the content files, path -> bytes
    convTransaction, \* conversion: the transaction built from the Resource
    convPc,          \* conversion: "idle", "start" or "done"
    ttfbIn,          \* TTFB: the RequestStarted and ResponseStarted recorded
    ttfbOut,         \* TTFB: the TTFBMS of the Resource
    ttfbPc,          \* TTFB: "idle", "start" or "done"
    writtenPath,     \* body file: the elements of the path it is written at
    writePc,         \* body file: "idle", "start", "written" or "failed"
    appendIn,        \* append: the manifest before and the transaction
    appendOut,       \* append: the manifest after
    appendPc         \* append: "idle", "start" or "done"

replayVars == <<now, disk, transactionMap, txHeap, mutexWriter, mutexReaders,
                wpc, loaded, loadIdx, reloadErr, stableMap, flow>>
watchVars == <<events, reloadMutex, reloadPending, sinceLastReload, tickIn,
               tickReady, unserved, sinceReloadEnd, gapAtStart, changesLeft>>
recVars == <<transactions, recordedBefore, recMutex, rflow, requestsLeft>>
storeVars == <<manifest, contents, resourceMap, savePc, batchLeft, storeOp>>
saverVars == <<saveCopy, saverPc>>
netVars == <<cancelledAt>>
treeVars == <<dirs, watched>>
missVars == <<upstream>>
codecVars == <<codecIn, codecPath, codecOut, codecPc>>
planVars == <<planBody, planResource, planChunks, planPc>>
convVars == <<convResource, convFiles, convTransaction, convPc>>
ttfbVars == <<ttfbIn, ttfbOut, ttfbPc>>
joinVars == <<writtenPath, writePc>>
appendVars == <<appendIn, appendOut, appendPc>>
extVars == <<storeVars, saverVars, netVars, treeVars, missVars, codecVars,
             planVars, convVars, ttfbVars, joinVars, appendVars>>
vars == <<replayVars, watchVars, recVars, extVars>>

Goroutines == {"events", "ticker"}

\* the contents of the map: key -> transaction value
MapView(tmap, heap) == [k \in DOMAIN tmap |-> heap[tmap[k]]]

\* objects reachable from the map or from a flow that captured a pointer
Live(tmap, fl) ==
    {tmap[k] : k \in DOMAIN tmap} \cup {fl[f].transaction : f \in Flows}

\* the garbage collector: unreachable objects are gone
Collect(heap, tmap, fl) ==
    [o \in 1..MaxObjects |->
        IF o \in Live(tmap, fl) THEN heap[o] ELSE NoTransaction]

\* mutant: the reload writes into the objects of the map it replaced, also
\* when a flow still holds one
NewObjectReused(tmap, fl) ==
    CHOOSE o \in 1..MaxObjects :
        /\ o \notin {tmap[k] : k \in DOMAIN tmap}
        /\ \A q \in 1..MaxObjects :
              q \notin {tmap[k] : k \in DOMAIN tmap} => o <= q

\* transactionCopy := transaction; &transactionCopy -- a new object, distinct
\* from every object still referenced
NewObject(tmap, fl) ==
    CHOOSE o \in 1..MaxObjects :
        /\ o \notin Live(tmap, fl)
        /\ \A q \in 1..MaxObjects : q \notin Live(tmap, fl) => o <= q

Nil == 0

\* f.Response before a hook sets it
NoResponse == [StatusCode |-> 0, Body |-> <<>>, playback |-> FALSE]

IdleFlow ==
    [pc |-> "Idle", key |-> NULL, transaction |-> Nil, captured |-> NoTransaction,
     startTime |-> 0, i |-> 0, targetSendTime |-> 0, behind |-> FALSE,
     bodyBuffer |-> <<>>, response |-> NoResponse, sent |-> <<>>]

\* NewPlaybackPluginWithInventoryDir: the map after the initial loadInventory
InitialMap(d) ==
    IF d.state = "ok"
    THEN LET txs == LoadPlaybackTransactions(d.resources)
         IN  [k \in {Key(txs[i].Method, txs[i].URL) : i \in 1..Len(txs)} |->
                 CHOOSE i \in 1..Len(txs) : Key(txs[i].Method, txs[i].URL) = k]
    ELSE EmptyMap

InitialHeap(d) ==
    LET txs == LoadPlaybackTransactions(d.resources)
    IN  [o \in 1..MaxObjects |-> IF o <= Len(txs) THEN txs[o] ELSE NoTransaction]

InitReplayer ==
    /\ now = 0
    /\ disk \in {d \in DiskStates : d.state # "corrupt"}
    /\ transactionMap = InitialMap(disk)
    /\ txHeap = InitialHeap(disk)
    /\ mutexWriter = FALSE
    /\ mutexReaders = {}
    /\ wpc = [g \in Goroutines |-> "Idle"]
    /\ loaded = <<>>
    /\ loadIdx = 0
    /\ reloadErr = FALSE
    /\ stableMap = MapView(transactionMap, txHeap)
    /\ flow = [f \in Flows |-> IdleFlow]

\* ------------------------------------------------- Replayer: Request hook
\* mutant: the lookup does not take the lock
CanRLockUnguarded(writer) == TRUE

\* sync.RWMutex: RLock() waits while a writer holds the lock
CanRLock(writer) == ~writer

\* sync.RWMutex: Lock() waits for the writer and for every reader
CanLock(writer, readers) == ~writer /\ readers = {}

\* playback.go:106  key := fmt.Sprintf("%s:%s", Method, URL)
FlowRequest(f, method, url) ==
    /\ flow[f].pc = "Idle"
    /\ flow' = [flow EXCEPT ![f].pc = "RLock", ![f].key = Key(method, url)]
    /\ UNCHANGED <<now, disk, transactionMap, txHeap, mutexWriter, mutexReaders,
                   wpc, loaded, loadIdx, reloadErr, stableMap, watchVars, recVars, extVars>>

\* playback.go:108  p.mutex.RLock()
FlowRLock(f) ==
    /\ flow[f].pc = "RLock"
    /\ CanRLock(mutexWriter)
    /\ mutexReaders' = mutexReaders \cup {f}
    /\ flow' = [flow EXCEPT ![f].pc = "Lookup"]
    /\ UNCHANGED <<now, disk, transactionMap, txHeap, mutexWriter,
                   wpc, loaded, loadIdx, reloadErr, stableMap, watchVars, recVars, extVars>>

\* playback.go:109  transaction, exists := p.transactionMap[key]
FlowLookup(f) ==
    /\ flow[f].pc = "Lookup"
    /\ LET exists == flow[f].key \in DOMAIN transactionMap
           ptr == IF exists THEN transactionMap[flow[f].key] ELSE Nil
       IN  flow' = [flow EXCEPT ![f].pc = "RUnlock",
                                ![f].transaction = ptr,
                                ![f].captured =
                                    IF exists THEN txHeap[ptr] ELSE NoTransaction]
    /\ UNCHANGED <<now, disk, transactionMap, txHeap, mutexWriter, mutexReaders,
                   wpc, loaded, loadIdx, reloadErr, stableMap, watchVars, recVars, extVars>>

\* mutant: the read lock is released by a defer, when the hook returns
FlowRUnlockDeferred(f) ==
    /\ flow[f].pc = "RUnlock"
    /\ flow' = [flow EXCEPT ![f].pc =
                   IF flow[f].transaction # Nil THEN "Playback" ELSE "Upstream"]
    /\ UNCHANGED <<now, disk, transactionMap, txHeap, mutexWriter, mutexReaders,
                   wpc, loaded, loadIdx, reloadErr, stableMap, watchVars, recVars, extVars>>

\* playback.go:110-116  p.mutex.RUnlock(); if exists { ... } else { ... }
FlowRUnlock(f) ==
    /\ flow[f].pc = "RUnlock"
    /\ mutexReaders' = mutexReaders \ {f}
    /\ flow' = [flow EXCEPT ![f].pc =
                   IF flow[f].transaction # Nil THEN "Playback" ELSE "MissRLock"]
    /\ UNCHANGED <<now, disk, transactionMap, txHeap, mutexWriter,
                   wpc, loaded, loadIdx, reloadErr, stableMap, watchVars, recVars, extVars>>

\* playback.go:119-126  the miss branch lists some keys under RLock
FlowMissRLock(f) ==
    /\ flow[f].pc = "MissRLock"
    /\ CanRLock(mutexWriter)
    /\ mutexReaders' = mutexReaders \cup {f}
    /\ flow' = [flow EXCEPT ![f].pc = "MissRUnlock"]
    /\ UNCHANGED <<now, disk, transactionMap, txHeap, mutexWriter,
                   wpc, loaded, loadIdx, reloadErr, stableMap, watchVars, recVars, extVars>>

\* playback.go:127
FlowMissRUnlock(f) ==
    /\ flow[f].pc = "MissRUnlock"
    /\ mutexReaders' = mutexReaders \ {f}
    /\ flow' = [flow EXCEPT ![f].pc = "Upstream"]
    /\ UNCHANGED <<now, disk, transactionMap, txHeap, mutexWriter,
                   wpc, loaded, loadIdx, reloadErr, stableMap, watchVars, recVars, extVars>>

\* mutant: the error paths of proxyUpstream return without a response
FlowProxyUpstreamSilent(f, status) ==
    /\ flow[f].pc = "Upstream"
    /\ flow' = [flow EXCEPT ![f].pc = "Done",
                            ![f].response =
                                IF status >= 500
                                THEN flow[f].response
                                ELSE [StatusCode |-> status, Body |-> <<>>,
                                      playback |-> FALSE]]
    /\ UNCHANGED <<now, disk, transactionMap, txHeap, mutexWriter, mutexReaders,
                   wpc, loaded, loadIdx, reloadErr, stableMap, watchVars, recVars, extVars>>

\* playback.go:238-305  proxyUpstream: the upstream's answer, or 500 / 502
FlowProxyUpstream(f, status) ==
    /\ flow[f].pc = "Upstream"
    /\ flow' = [flow EXCEPT ![f].pc = "Done",
                            ![f].response =
                                [StatusCode |-> status, Body |-> <<>>,
                                 playback |-> FALSE]]
    /\ UNCHANGED <<now, disk, transactionMap, txHeap, mutexWriter, mutexReaders,
                   wpc, loaded, loadIdx, reloadErr, stableMap, watchVars, recVars, extVars>>

\* ----------------------------------------- Replayer: playbackTransaction
\* mutant: every chunk is due at the first byte's time
TargetSendTimeAtTTFB(requestStartTime, i, chunk, ttfb) ==
    requestStartTime + ttfb

\* playback.go:168-181  when chunk number i (from 0) is due
TargetSendTime(requestStartTime, i, chunk, ttfb) ==
    IF chunk.TargetOffset > 0
    THEN requestStartTime + chunk.TargetOffset
    ELSE IF i = 0
         THEN requestStartTime + ttfb
         ELSE requestStartTime + (ttfb + i * 50 * Millisecond)

\* mutant: a chunk whose send time has passed is dropped
WriteChunkDropLate(bodyBuffer, chunk, behind) ==
    IF behind THEN bodyBuffer ELSE bodyBuffer \o chunk.Chunk

\* playback.go:185-202  both branches of the wait check end in
\* bodyBuffer.Write(chunk.Chunk); behind tells the branch that was taken
WriteChunk(bodyBuffer, chunk, behind) == bodyBuffer \o chunk.Chunk

\* the chunks the replay ranges over: those of the captured transaction
Chunks(f) == txHeap[flow[f].transaction].Chunks

\* the flow after chunk number i has been written at time `at`
Written(fl, chunk, at, target, behind) ==
    [fl EXCEPT !.bodyBuffer = WriteChunk(fl.bodyBuffer, chunk, behind),
               !.sent = Append(fl.sent, [at |-> at, target |-> target]),
               !.behind = behind,
               !.i = fl.i + 1,
               !.pc = "Pace"]

\* playback.go:135-161  startTime := time.Now(); build the response
FlowPlayback(f) ==
    /\ flow[f].pc = "Playback"
    /\ flow' = [flow EXCEPT ![f].startTime = now,
                            ![f].i = 0,
                            ![f].bodyBuffer = <<>>,
                            ![f].pc = IF Len(Chunks(f)) > 0
                                      THEN "Pace" ELSE "SetResponse"]
    /\ UNCHANGED <<now, disk, transactionMap, txHeap, mutexWriter, mutexReaders,
                   wpc, loaded, loadIdx, reloadErr, stableMap, watchVars, recVars, extVars>>

\* playback.go:166-199  next chunk: compute its send time, read the clock and
\* either call time.Sleep or go on at once
FlowPace(f) ==
    /\ flow[f].pc = "Pace"
    /\ flow[f].i < Len(Chunks(f))
    /\ LET chunk == Chunks(f)[flow[f].i + 1]
           target == TargetSendTime(flow[f].startTime, flow[f].i, chunk,
                                    txHeap[flow[f].transaction].TTFB)
       IN  IF now < target
           THEN flow' = [flow EXCEPT ![f].pc = "Sleeping",
                                     ![f].targetSendTime = target]
           ELSE flow' = [flow EXCEPT ![f] =
                            Written(flow[f], chunk, now, target, TRUE)]
    /\ UNCHANGED <<now, disk, transactionMap, txHeap, mutexWriter, mutexReaders,
                   wpc, loaded, loadIdx, reloadErr, stableMap, watchVars, recVars, extVars>>

\* playback.go:192-202  time.Sleep returns, not before the send time
FlowWake(f) ==
    /\ flow[f].pc = "Sleeping"
    /\ now >= flow[f].targetSendTime
    /\ flow' = [flow EXCEPT ![f] =
                   Written(flow[f], Chunks(f)[flow[f].i + 1], now,
                           flow[f].targetSendTime, FALSE)]
    /\ UNCHANGED <<now, disk, transactionMap, txHeap, mutexWriter, mutexReaders,
                   wpc, loaded, loadIdx, reloadErr, stableMap, watchVars, recVars, extVars>>

\* playback.go:205-215  response.Body = bodyBuffer.Bytes(); f.Response = response
FlowSetResponse(f) ==
    /\ \/ flow[f].pc = "SetResponse"
       \/ flow[f].pc = "Pace" /\ flow[f].i >= Len(Chunks(f))
    /\ flow' = [flow EXCEPT ![f].pc = "Done",
                            ![f].response =
                                [StatusCode |-> 200,
                                 Body |-> flow[f].bodyBuffer,
                                 playback |-> TRUE]]
    /\ UNCHANGED <<now, disk, transactionMap, txHeap, mutexWriter, mutexReaders,
                   wpc, loaded, loadIdx, reloadErr, stableMap, watchVars, recVars, extVars>>

\* the hook returns; the worker takes the next flow
FlowReturn(f) ==
    /\ flow[f].pc = "Done"
    /\ flow' = [flow EXCEPT ![f] = IdleFlow]
    /\ txHeap' = Collect(txHeap, transactionMap, flow')
    /\ UNCHANGED <<now, disk, transactionMap, mutexWriter, mutexReaders,
                   wpc, loaded, loadIdx, reloadErr, stableMap, watchVars, recVars, extVars>>

\* what the client has received of the response body: the proxy writes
\* f.Response to the client once the hook has set it
Delivered(f) ==
    IF flow[f].response = NoResponse THEN <<>> ELSE flow[f].response.Body

\* --------------------------------------------- Replayer: ReloadInventory
\* playback.go:330  p.mutex.Lock()
ReloadLock(g) ==
    /\ wpc[g] = "ReloadLock"
    /\ CanLock(mutexWriter, mutexReaders)
    /\ mutexWriter' = TRUE
    /\ wpc' = [wpc EXCEPT ![g] = "ReloadClear"]
    /\ UNCHANGED <<now, disk, transactionMap, txHeap, mutexReaders, loaded,
                   loadIdx, reloadErr, stableMap, flow, watchVars, recVars, extVars>>

\* playback.go:334-337  p.transactionMap = make(map...); new PlaybackManager
ReloadClear(g) ==
    /\ wpc[g] = "ReloadClear"
    /\ transactionMap' = EmptyMap
    /\ txHeap' = Collect(txHeap, transactionMap', flow)
    /\ wpc' = [wpc EXCEPT ![g] = "LoadInventory"]
    /\ UNCHANGED <<now, disk, mutexWriter, mutexReaders, loaded, loadIdx,
                   reloadErr, stableMap, flow, watchVars, recVars, extVars>>

\* playback.go:56-70  os.Stat, LoadPlaybackTransactions (reads inventory.json)
LoadInventoryRead(g) ==
    /\ wpc[g] = "LoadInventory"
    /\ IF disk.state = "missing"
       THEN /\ reloadErr' = FALSE
            /\ UNCHANGED <<loaded, loadIdx>>
            /\ wpc' = [wpc EXCEPT ![g] = "ReloadUnlock"]
       ELSE IF disk.state = "corrupt"
       THEN /\ reloadErr' = TRUE
            /\ UNCHANGED <<loaded, loadIdx>>
            /\ wpc' = [wpc EXCEPT ![g] = "ReloadUnlock"]
       ELSE /\ reloadErr' = FALSE
            /\ loaded' = LoadPlaybackTransactions(disk.resources)
            /\ loadIdx' = 1
            /\ wpc' = [wpc EXCEPT ![g] =
                          IF Len(disk.resources) = 0
                          THEN "ReloadUnlock" ELSE "LoadInventoryStore"]
    /\ UNCHANGED <<now, disk, transactionMap, txHeap, mutexWriter, mutexReaders,
                   stableMap, flow, watchVars, recVars, extVars>>

\* playback.go:73-84  one turn of the loop: p.transactionMap[key] = &transactionCopy
LoadInventoryStore(g) ==
    /\ wpc[g] = "LoadInventoryStore"
    /\ LET transaction == loaded[loadIdx]
           key == Key(transaction.Method, transaction.URL)
           obj == NewObject(transactionMap, flow)
       IN  /\ txHeap' = [txHeap EXCEPT ![obj] = transaction]
           /\ transactionMap' =
                  [k \in DOMAIN transactionMap \cup {key} |->
                      IF k = key THEN obj ELSE transactionMap[k]]
    /\ loadIdx' = loadIdx + 1
    /\ wpc' = [wpc EXCEPT ![g] = IF loadIdx = Len(loaded)
                                 THEN "ReloadUnlock" ELSE "LoadInventoryStore"]
    /\ UNCHANGED <<now, disk, mutexWriter, mutexReaders, loaded, reloadErr,
                   stableMap, flow, watchVars, recVars, extVars>>

\* playback.go:331,340-344  the deferred p.mutex.Unlock(); return
ReloadUnlock(g) ==
    /\ wpc[g] = "ReloadUnlock"
    /\ mutexWriter' = FALSE
    /\ stableMap' = MapView(transactionMap, txHeap)
    /\ loaded' = <<>>
    /\ loadIdx' = 0
    /\ wpc' = [wpc EXCEPT ![g] = "ReloadReturned"]
    /\ sinceReloadEnd' = 0
    /\ UNCHANGED <<now, disk, transactionMap, txHeap, mutexReaders, reloadErr,
                   flow, events, reloadMutex, reloadPending, sinceLastReload,
                   tickIn, tickReady, unserved, gapAtStart, changesLeft, recVars, extVars>>

\* ------------------------------------- the Replayer with reloads at any time
\* proxy.go:107  plugin.ReloadInventory() is called (the debounce is left out)
ReloadCall(g) ==
    /\ \A h \in Goroutines : wpc[h] = "Idle"
    /\ wpc' = [wpc EXCEPT ![g] = "ReloadLock"]
    /\ UNCHANGED <<now, disk, transactionMap, txHeap, mutexWriter, mutexReaders,
                   loaded, loadIdx, reloadErr, stableMap, flow, watchVars, recVars, extVars>>

\* proxy.go:108-119  ReloadInventory has returned to its caller
ReloadReturn(g) ==
    /\ wpc[g] = "ReloadReturned"
    /\ wpc' = [wpc EXCEPT ![g] = "Idle"]
    /\ UNCHANGED <<now, disk, transactionMap, txHeap, mutexWriter, mutexReaders,
                   loaded, loadIdx, reloadErr, stableMap, flow, watchVars, recVars, extVars>>

\* the operator rewrites, removes or half-writes inventory.json
EditInventory(d) ==
    /\ d # disk
    /\ disk' = d
    /\ UNCHANGED <<now, transactionMap, txHeap, mutexWriter, mutexReaders,
                   wpc, loaded, loadIdx, reloadErr, stableMap, flow, watchVars, recVars, extVars>>

\* time passes: by one step, or up to the moment a sleeping flow is due
WakeTimes == {flow[f].targetSendTime : f \in {h \in Flows : flow[h].pc = "Sleeping"}}

Tick(t) ==
    /\ t > now
    /\ t <= MaxTime
    /\ now' = t
    /\ UNCHANGED <<disk, transactionMap, txHeap, mutexWriter, mutexReaders,
                   wpc, loaded, loadIdx, reloadErr, stableMap, flow, watchVars, recVars, extVars>>

InitWatcherIdle ==
    /\ events = <<>>
    /\ reloadMutex = "none"
    /\ reloadPending = FALSE
    /\ sinceLastReload = 0
    /\ tickIn = 0
    /\ tickReady = FALSE
    /\ unserved = FALSE
    /\ sinceReloadEnd = 0
    /\ gapAtStart = 0
    /\ changesLeft = 0

InitRecorderIdle ==
    /\ transactions = <<>>
    /\ recordedBefore = 0
    /\ recMutex = 0
    /\ rflow = <<>>
    /\ requestsLeft = 0

NoFiles == [p \in {} |-> <<>>]

\* proxyUpstream has not run for the flow
NoUpstream ==
    [failure |-> "none", StatusCode |-> 0, ContentType |-> "", Body |-> ""]

\* the client of a flow is still connected
Connected == <<>>

NoStoreOp == [kind |-> "none", input |-> <<>>, outcome |-> "none", n |-> 0]

InventoryDir == "inv"

SubDirs == {"inv/contents", "inv/new"}

\* proxy.go:72-80  filepath.Walk(inventoryDir, ...): watcher.Add(path) for
\* every directory the walk visits, those that exist when it runs
Walk(existing) == existing

InitWatched(existing) ==
    /\ dirs = existing
    /\ watched = Walk(existing)

InitFiles ==
    /\ manifest = <<>>
    /\ contents = NoFiles
    /\ resourceMap = EmptyMap
    /\ savePc = "idle"
    /\ batchLeft = 0
    /\ storeOp = NoStoreOp
    /\ saveCopy = <<>>
    /\ saverPc = "idle"
    /\ cancelledAt = [f \in Flows |-> Connected]
    /\ upstream = [f \in Flows |-> NoUpstream]

\* the path codec has not been called
NoURL == [Scheme |-> "", Hostname |-> "", Port |-> "", Path |-> <<>>, RawQuery |-> <<>>]

NoFilePath ==
    [err |-> FALSE, method |-> "", protocol |-> "", hostname |-> "", rest |-> <<>>]

InitCodecIdle ==
    /\ codecIn = [Method |-> "", URL |-> NoURL]
    /\ codecPath = NoFilePath
    /\ codecOut = [Method |-> "", URL |-> NoURL]
    /\ codecPc = "idle"

\* the chunk planner has not been called
InitPlanIdle ==
    /\ planBody = <<>>
    /\ planResource = [TTFBMS |-> 0, MBPS |-> <<>>]
    /\ planChunks = <<>>
    /\ planPc = "idle"

\* no Resource is being converted
InitConvIdle ==
    /\ convResource = <<>>
    /\ convFiles = <<>>
    /\ convTransaction = <<>>
    /\ convPc = "idle"

\* no TTFB is being computed, no body file written, no append under way
InitTTFBIdle == ttfbIn = <<>> /\ ttfbOut = 0 /\ ttfbPc = "idle"
InitJoinIdle == writtenPath = <<>> /\ writePc = "idle"
InitAppendIdle == appendIn = <<>> /\ appendOut = <<>> /\ appendPc = "idle"
InitAuxIdle == InitTTFBIdle /\ InitJoinIdle /\ InitAppendIdle

\* an empty inventory directory
InitStore ==
    /\ InitFiles /\ InitWatched({InventoryDir}) /\ InitCodecIdle /\ InitPlanIdle
    /\ InitConvIdle /\ InitAuxIdle

InitReplay ==
    InitReplayer /\ InitWatcherIdle /\ InitRecorderIdle /\ InitStore

NextReplay ==
    \/ \E f \in Flows, m \in Methods, u \in URLs : FlowRequest(f, m, u)
    \/ \E f \in Flows : FlowRLock(f)
    \/ \E f \in Flows : FlowLookup(f)
    \/ \E f \in Flows : FlowRUnlock(f)
    \/ \E f \in Flows : FlowMissRLock(f)
    \/ \E f \in Flows : FlowMissRUnlock(f)
    \/ \E f \in Flows, st \in {200, 500, 502} : FlowProxyUpstream(f, st)
    \/ \E f \in Flows : FlowPlayback(f)
    \/ \E f \in Flows : FlowPace(f)
    \/ \E f \in Flows : FlowWake(f)
    \/ \E f \in Flows : FlowSetResponse(f)
    \/ \E f \in Flows : FlowReturn(f)
    \/ ReloadCall("events")
    \/ ReloadLock("events")
    \/ ReloadClear("events")
    \/ LoadInventoryRead("events")
    \/ LoadInventoryStore("events")
    \/ ReloadUnlock("events")
    \/ ReloadReturn("events")
    \/ \E d \in DiskStates : EditInventory(d)
    \/ \E t \in {now + TimeStep} \cup WakeTimes : Tick(t)

SpecReplay == InitReplay /\ [][NextReplay]_vars

\* --------------------------------------- the Replayer and a client that leaves
\* the client closes its connection while playbackTransaction runs its chunk
\* loop (playback.go:166-203); the loop reads no flag, channel or context of
\* the flow, so the step changes nothing the replay looks at
ClientDisconnect(f) ==
    /\ flow[f].pc \in {"Pace", "Sleeping"}
    /\ cancelledAt[f] = Connected
    /\ cancelledAt' = [cancelledAt EXCEPT ![f] =
                          <<IF flow[f].pc = "Sleeping"
                            THEN flow[f].i + 1 ELSE flow[f].i>>]
    /\ UNCHANGED <<replayVars, watchVars, recVars, storeVars, saverVars, treeVars,
                   missVars, codecVars, planVars, convVars, ttfbVars, joinVars, appendVars>>

\* a connection that was closed carries no further request
NextCancel ==
    \/ \E f \in Flows, m \in Methods, u \in URLs :
          cancelledAt[f] = Connected /\ FlowRequest(f, m, u)
    \/ \E f \in Flows : FlowRLock(f)
    \/ \E f \in Flows : FlowLookup(f)
    \/ \E f \in Flows : FlowRUnlock(f)
    \/ \E f \in Flows : FlowMissRLock(f)
    \/ \E f \in Flows : FlowMissRUnlock(f)
    \/ \E f \in Flows, st \in {200, 500, 502} : FlowProxyUpstream(f, st)
    \/ \E f \in Flows : FlowPlayback(f)
    \/ \E f \in Flows : FlowPace(f)
    \/ \E f \in Flows : FlowWake(f)
    \/ \E f \in Flows : FlowSetResponse(f)
    \/ \E f \in Flows : FlowReturn(f)
    \/ \E f \in Flows : ClientDisconnect(f)
    \/ \E t \in {now + TimeStep} \cup WakeTimes : Tick(t)

SpecCancel == InitReplay /\ [][NextCancel]_vars

\* ------------------------------------------ the Replayer's miss branch
\* what the attempt to forward a request can meet: http.NewRequest fails,
\* client.Do fails, io.ReadAll of the upstream's body fails, or none of these
Failures == {"build", "send", "read", "none"}

\* the answers of an upstream server
UpstreamAnswers ==
    {[StatusCode |-> 200, ContentType |-> "text/html", Body |-> "page"],
     [StatusCode |-> 404, ContentType |-> "text/html", Body |-> "gone"],
     [StatusCode |-> 500, ContentType |-> "application/json", Body |-> ""]}

\* mutant: every failure is reported as a 500
ErrorStatusAlways500(failure) == 500

\* playback.go:254, 263-284  the status createErrorResponse is called with
ErrorStatus(failure) == IF failure = "build" THEN 500 ELSE 502

\* playback.go:254, 270, 278  the message of the error response
ErrorMessage(failure) ==
    IF failure = "build" THEN "Failed to create upstream request"
    ELSE IF failure = "send" THEN "Upstream request failed"
    ELSE "Failed to read upstream response"

\* playback.go:308-319  createErrorResponse
createErrorResponse(failure, statusCode, message) ==
    [failure |-> failure, StatusCode |-> statusCode,
     ContentType |-> "text/plain", Body |-> message]

\* playback.go:238-305  proxyUpstream: the proxy.Response it sets
proxyUpstream(failure, resp) ==
    IF failure # "none"
    THEN createErrorResponse(failure, ErrorStatus(failure), ErrorMessage(failure))
    ELSE [failure |-> "none", StatusCode |-> resp.StatusCode,
          ContentType |-> resp.ContentType, Body |-> resp.Body]

\* playback.go:238-305  proxyUpstream runs for a flow that missed
FlowForward(f, failure, resp) ==
    /\ flow[f].pc = "Upstream"
    /\ LET response == proxyUpstream(failure, resp)
       IN  /\ upstream' = [upstream EXCEPT ![f] = response]
           /\ flow' = [flow EXCEPT ![f].pc = "Done",
                                   ![f].response =
                                       [StatusCode |-> response.StatusCode,
                                        Body |-> <<>>,
                                        playback |-> FALSE]]
    /\ UNCHANGED <<now, disk, transactionMap, txHeap, mutexWriter, mutexReaders,
                   wpc, loaded, loadIdx, reloadErr, stableMap, watchVars,
                   recVars, storeVars, saverVars, netVars, treeVars, codecVars, planVars, convVars, ttfbVars, joinVars, appendVars>>

NextMiss ==
    \/ \E f \in Flows, m \in Methods, u \in URLs : FlowRequest(f, m, u)
    \/ \E f \in Flows : FlowRLock(f)
    \/ \E f \in Flows : FlowLookup(f)
    \/ \E f \in Flows : FlowRUnlock(f)
    \/ \E f \in Flows : FlowMissRLock(f)
    \/ \E f \in Flows : FlowMissRUnlock(f)
    \/ \E f \in Flows, failure \in Failures, resp \in UpstreamAnswers :
          FlowForward(f, failure, resp)
    \/ \E f \in Flows : FlowPlayback(f)
    \/ \E f \in Flows : FlowPace(f)
    \/ \E f \in Flows : FlowWake(f)
    \/ \E f \in Flows : FlowSetResponse(f)
    \/ \E f \in Flows : FlowReturn(f)
    \/ \E t \in {now + TimeStep} \cup WakeTimes : Tick(t)

SpecMiss == InitReplay /\ [][NextMiss]_vars

\* ------------------------------------------------------------ the watcher
\* Times of the watcher are counted in milliseconds.
DebounceWindow == 100
TickerPeriod == 200
WatchStep == 50
MaxEvents == 2
MaxChanges == 3

ReloadPcs == {"ReloadLock", "ReloadClear", "LoadInventory",
              "LoadInventoryStore", "ReloadUnlock"}

ManifestName == <<"i", "n", "v">>
HiddenName == <<".", "s", "w", "p">>

\* proxy.go:146  filepath.Base(event.Name)[0] == '.'
Hidden(name) == name[1] = "."

\* proxy.go:149  event.Op&(fsnotify.Write|fsnotify.Create|fsnotify.Remove) != 0
ReloadOp(op) == op \in {"Write", "Create", "Remove"}

\* mutant: the debounce test is left out
TooSoonNever(since) == FALSE

\* proxy.go:96  time.Since(lastReloadTime) < 100*time.Millisecond
TooSoon(since) == since < DebounceWindow

\* time.Since(...) after `step` more ms; beyond the window its value no
\* longer matters
Later(since, step) == Min(since + step, DebounceWindow)

\* playback.go:322-326  GetTransactionCount
GetTransactionCount == Cardinality(DOMAIN transactionMap)

\* the operator changes inventory.json; fsnotify queues the event
FileChange(d) ==
    /\ changesLeft > 0
    /\ Len(events) < MaxEvents
    /\ d # disk
    /\ disk' = d
    /\ events' = Append(events,
                   [Name |-> ManifestName,
                    Op |-> IF d.state = "missing" THEN "Remove"
                           ELSE IF disk.state = "missing" THEN "Create"
                           ELSE "Write"])
    /\ changesLeft' = changesLeft - 1
    /\ UNCHANGED <<now, transactionMap, txHeap, mutexWriter, mutexReaders, wpc,
                   loaded, loadIdx, reloadErr, stableMap, flow, reloadMutex,
                   reloadPending, sinceLastReload, tickIn, tickReady, unserved,
                   sinceReloadEnd, gapAtStart, recVars, extVars>>

\* an event that changes nothing the Replayer reads: an editor's hidden
\* swap file, or a chmod
OtherEvent(name, op) ==
    /\ changesLeft > 0
    /\ Len(events) < MaxEvents
    /\ Hidden(name) \/ ~ReloadOp(op)
    /\ events' = Append(events, [Name |-> name, Op |-> op])
    /\ changesLeft' = changesLeft - 1
    /\ UNCHANGED <<replayVars, reloadMutex, reloadPending, sinceLastReload,
                   tickIn, tickReady, unserved, sinceReloadEnd, gapAtStart,
                   recVars, extVars>>

\* proxy.go:141-152  case event := <-watcher.Events
EventReceive ==
    /\ wpc["events"] = "Idle"
    /\ events # <<>>
    /\ events' = Tail(events)
    /\ LET event == Head(events)
           reload == ~Hidden(event.Name) /\ ReloadOp(event.Op)
       IN  /\ wpc' = [wpc EXCEPT !["events"] =
                         IF reload THEN "DoReload" ELSE "Idle"]
           /\ unserved' = (unserved \/ reload)
    /\ UNCHANGED <<now, disk, transactionMap, txHeap, mutexWriter, mutexReaders,
                   loaded, loadIdx, reloadErr, stableMap, flow, reloadMutex,
                   reloadPending, sinceLastReload, tickIn, tickReady,
                   sinceReloadEnd, gapAtStart, changesLeft, recVars, extVars>>

\* proxy.go:93-107  doReload: take reloadMutex; too soon: mark pending and
\* return; else call plugin.ReloadInventory()
DoReloadEnter(g) ==
    /\ wpc[g] = "DoReload"
    /\ reloadMutex = "none"
    /\ IF TooSoon(sinceLastReload)
       THEN /\ reloadPending' = TRUE
            /\ wpc' = [wpc EXCEPT ![g] = "Idle"]
            /\ UNCHANGED <<reloadMutex, unserved, gapAtStart>>
       ELSE /\ reloadMutex' = g
            /\ wpc' = [wpc EXCEPT ![g] = "ReloadLock"]
            /\ unserved' = FALSE
            /\ gapAtStart' = sinceReloadEnd
            /\ UNCHANGED reloadPending
    /\ UNCHANGED <<now, disk, transactionMap, txHeap, mutexWriter, mutexReaders,
                   loaded, loadIdx, reloadErr, stableMap, flow, events,
                   sinceLastReload, tickIn, tickReady, sinceReloadEnd,
                   changesLeft, recVars, extVars>>

\* proxy.go:108-119  lastReloadTime = time.Now(); reloadPending = false;
\* the deferred reloadMutex.Unlock()
DoReloadFinish(g) ==
    /\ wpc[g] = "ReloadReturned"
    /\ sinceLastReload' = 0
    /\ reloadPending' = FALSE
    /\ reloadMutex' = "none"
    /\ wpc' = [wpc EXCEPT ![g] = "Idle"]
    /\ UNCHANGED <<now, disk, transactionMap, txHeap, mutexWriter, mutexReaders,
                   loaded, loadIdx, reloadErr, stableMap, flow, events, tickIn,
                   tickReady, unserved, sinceReloadEnd, gapAtStart, changesLeft,
                   recVars, extVars>>

\* mutant: the ticker's test of the window is inverted
PendingDueInverted(pending, since) == pending /\ since < DebounceWindow

\* proxy.go:128  reloadPending && time.Since(lastReloadTime) >= 100 ms
PendingDue(pending, since) == pending /\ since >= DebounceWindow

\* proxy.go:126-133  a tick: under reloadMutex, reload if one is pending and
\* the window has passed
TickerPoll ==
    /\ wpc["ticker"] = "Idle"
    /\ tickReady
    /\ reloadMutex = "none"
    /\ tickReady' = FALSE
    /\ wpc' = [wpc EXCEPT !["ticker"] =
                  IF PendingDue(reloadPending, sinceLastReload)
                  THEN "DoReload" ELSE "Idle"]
    /\ UNCHANGED <<now, disk, transactionMap, txHeap, mutexWriter, mutexReaders,
                   loaded, loadIdx, reloadErr, stableMap, flow, events,
                   reloadMutex, reloadPending, sinceLastReload, tickIn, unserved,
                   sinceReloadEnd, gapAtStart, changesLeft, recVars, extVars>>

\* WatchStep ms pass; the ticker puts a tick in ticker.C at the first step
\* that completes 200 ms (a tick is dropped when one is still waiting there)
WatchTick ==
    /\ sinceLastReload' = Later(sinceLastReload, WatchStep)
    /\ sinceReloadEnd' = Later(sinceReloadEnd, WatchStep)
    /\ IF tickIn <= WatchStep
       THEN /\ tickReady' = TRUE
            /\ tickIn' = TickerPeriod
       ELSE /\ tickIn' = tickIn - WatchStep
            /\ UNCHANGED tickReady
    /\ UNCHANGED <<replayVars, events, reloadMutex, reloadPending, unserved,
                   gapAtStart, changesLeft, recVars, extVars>>

InitWatcher ==
    /\ events = <<>>
    /\ reloadMutex = "none"
    /\ reloadPending = FALSE
    /\ sinceLastReload = DebounceWindow
    /\ tickIn = TickerPeriod
    /\ tickReady = FALSE
    /\ unserved = FALSE
    /\ sinceReloadEnd = DebounceWindow
    /\ gapAtStart = DebounceWindow
    /\ changesLeft = MaxChanges

InitWatch == InitReplayer /\ InitWatcher /\ InitRecorderIdle /\ InitStore

EventsStep ==
    \/ EventReceive
    \/ DoReloadEnter("events")
    \/ ReloadLock("events")
    \/ ReloadClear("events")
    \/ LoadInventoryRead("events")
    \/ LoadInventoryStore("events")
    \/ ReloadUnlock("events")
    \/ DoReloadFinish("events")

TickerStep ==
    \/ TickerPoll
    \/ DoReloadEnter("ticker")
    \/ ReloadLock("ticker")
    \/ ReloadClear("ticker")
    \/ LoadInventoryRead("ticker")
    \/ LoadInventoryStore("ticker")
    \/ ReloadUnlock("ticker")
    \/ DoReloadFinish("ticker")

NextWatch ==
    \/ EventsStep
    \/ TickerStep
    \/ WatchTick
    \/ \E d \in DiskStates : FileChange(d)
    \/ \E name \in {ManifestName, HiddenName},
          op \in {"Write", "Chmod"} : OtherEvent(name, op)

SpecWatch == InitWatch /\ [][NextWatch]_vars

\* the goroutines are scheduled and time passes
SpecWatchFair ==
    /\ SpecWatch
    /\ WF_vars(EventsStep)
    /\ WF_vars(TickerStep)
    /\ WF_vars(WatchTick)

\* ------------------------------------- the watcher and the directory tree
ContentName == <<"i", "n", "d", "e", "x">>

\* filepath.Base of a directory beneath the inventory directory
DirName(dir) ==
    IF dir = "inv/contents" THEN <<"c", "o", "n", "t">> ELSE <<"n", "e", "w">>

\* a directory is made in the inventory directory after the watcher started:
\* the watch on its parent reports the Create; the handler (proxy.go:141-152)
\* calls doReload and never watcher.Add, so the watch list stays as the walk
\* at start left it
MakeDirectory(dir) ==
    /\ changesLeft > 0
    /\ Len(events) < MaxEvents
    /\ dir \notin dirs
    /\ dirs' = dirs \cup {dir}
    /\ events' = IF InventoryDir \in watched
                 THEN Append(events, [Name |-> DirName(dir), Op |-> "Create"])
                 ELSE events
    /\ changesLeft' = changesLeft - 1
    /\ UNCHANGED <<replayVars, reloadMutex, reloadPending, sinceLastReload,
                   tickIn, tickReady, unserved, sinceReloadEnd, gapAtStart,
                   recVars, storeVars, saverVars, netVars, missVars, codecVars, planVars, convVars, ttfbVars, joinVars, appendVars,
                   watched>>

\* a file in a directory of the tree is written: inventory.json in the
\* inventory directory, a content file in a directory beneath it; fsnotify
\* queues an event when the directory is on the watch list
TreeChange(dir, d) ==
    /\ changesLeft > 0
    /\ Len(events) < MaxEvents
    /\ dir \in dirs
    /\ d # disk
    /\ dir # InventoryDir => (d.state = "ok" /\ disk.state = "ok")
    /\ disk' = d
    /\ events' =
          IF dir \in watched
          THEN Append(events,
                  IF dir = InventoryDir
                  THEN [Name |-> ManifestName,
                        Op |-> IF d.state = "missing" THEN "Remove"
                               ELSE IF disk.state = "missing" THEN "Create"
                               ELSE "Write"]
                  ELSE [Name |-> ContentName, Op |-> "Write"])
          ELSE events
    /\ changesLeft' = changesLeft - 1
    /\ UNCHANGED <<now, transactionMap, txHeap, mutexWriter, mutexReaders, wpc,
                   loaded, loadIdx, reloadErr, stableMap, flow, reloadMutex,
                   reloadPending, sinceLastReload, tickIn, tickReady, unserved,
                   sinceReloadEnd, gapAtStart, recVars, storeVars, saverVars,
                   netVars, treeVars, missVars, codecVars, planVars, convVars, ttfbVars, joinVars, appendVars>>

InitTree ==
    /\ InitReplayer /\ InitWatcher /\ InitRecorderIdle /\ InitFiles /\ InitCodecIdle
    /\ InitPlanIdle /\ InitConvIdle /\ InitAuxIdle
    /\ \E existing \in {{InventoryDir}, {InventoryDir, "inv/contents"}} :
          InitWatched(existing)

NextTree ==
    \/ EventsStep
    \/ TickerStep
    \/ WatchTick
    \/ \E dir \in SubDirs : MakeDirectory(dir)
    \/ \E dir \in {InventoryDir} \cup SubDirs, d \in DiskStates : TreeChange(dir, d)

SpecTree == InitTree /\ [][NextTree]_vars

\* ------------------------------------------------------- the path codec
\* Strings the codec cuts and joins are sequences of one-character strings;
\* a URL is what url.Parse makes of it.
MaxPathLen == 3
MaxParamLength == 32
HashLength == 8

PathChars == {"/", "a", ".", "~"}

IndexHtml == <<"i", "n", "d", "e", "x", ".", "h", "t", "m", "l">>

SlashIndexHtml == <<"/">> \o IndexHtml

DotHtml == <<".", "h", "t", "m", "l">>

\* strings.ToLower / strings.ToUpper on the methods, schemes and hosts used
ToLower(str) ==
    CASE str = "GET" -> "get"
      [] str = "HTTP" -> "http"
      [] str = "H" -> "h"
      [] OTHER -> str

ToUpper(str) ==
    CASE str = "get" -> "GET"
      [] str = "http" -> "HTTP"
      [] str = "h" -> "H"
      [] OTHER -> str

HasSuffix(str, suffix) ==
    /\ Len(str) >= Len(suffix)
    /\ SubSeq(str, Len(str) - Len(suffix) + 1, Len(str)) = suffix

TrimSuffix(str, suffix) ==
    IF HasSuffix(str, suffix)
    THEN SubSeq(str, 1, Len(str) - Len(suffix)) ELSE str

TrimPrefix(str, prefix) ==
    IF Len(str) >= Len(prefix) /\ SubSeq(str, 1, Len(prefix)) = prefix
    THEN SubSeq(str, Len(prefix) + 1, Len(str)) ELSE str

\* strings.Contains
Contains(str, sub) ==
    \E i \in 0..(Len(str) - Len(sub)) : SubSeq(str, i + 1, i + Len(sub)) = sub

\* strings.LastIndex for one character, counted from 1; 0 when absent
LastIndex(str, c) ==
    IF \E i \in DOMAIN str : str[i] = c
    THEN CHOOSE i \in DOMAIN str :
             str[i] = c /\ \A j \in DOMAIN str : str[j] = c => j <= i
    ELSE 0

\* filepath.Ext: from the last dot of the last element, "" without one
Ext(path) ==
    IF LastIndex(path, ".") > LastIndex(path, "/")
    THEN SubSeq(path, LastIndex(path, "."), Len(path)) ELSE <<>>

\* part_003:75-89  normalizeResourcePath
normalizeResourcePath(path) ==
    IF HasSuffix(path, <<"/">>) THEN path \o IndexHtml
    ELSE IF Ext(path) = <<>> THEN path \o SlashIndexHtml
    ELSE path

RECURSIVE QueryUnescape(_)
\* url.QueryUnescape on the escapes that occur here: "+" and "%20" are a
\* space
QueryUnescape(str) ==
    IF str = <<>> THEN <<>>
    ELSE IF Head(str) = "+" THEN <<" ">> \o QueryUnescape(Tail(str))
    ELSE IF Len(str) >= 3 /\ SubSeq(str, 1, 3) = <<"%", "2", "0">>
    THEN <<" ">> \o QueryUnescape(SubSeq(str, 4, Len(str)))
    ELSE <<Head(str)>> \o QueryUnescape(Tail(str))

RECURSIVE PathEscape(_)
\* url.PathEscape: a space becomes %20; letters, "=", "&" and "~" stay
PathEscape(str) ==
    IF str = <<>> THEN <<>>
    ELSE (IF Head(str) = " " THEN <<"%", "2", "0">> ELSE <<Head(str)>>)
             \o PathEscape(Tail(str))

\* part_003:91-121  customEncodeQuery: unescape the query, escape each name
\* and value; "&" and "=" are cut out and put back where they were
customEncodeQuery(query) == PathEscape(QueryUnescape(query))

\* part_003:125-162  customDecodeQuery: unescape each name and value
customDecodeQuery(query) == QueryUnescape(query)

\* part_003:173-178  the first HashLength characters of
\* base64(sha1(remaining)), the same for equal remainders
HashSuffix(remaining) == [i \in 1..HashLength |-> "#"]

\* part_003:165-196  handleURLParameters
handleURLParameters(path, rawQuery) ==
    LET encoded == customEncodeQuery(rawQuery)
        encodedQuery ==
            IF Len(encoded) > MaxParamLength
            THEN SubSeq(encoded, 1, MaxParamLength)
                     \o HashSuffix(SubSeq(encoded, MaxParamLength + 1, Len(encoded)))
            ELSE encoded
    IN  IF HasSuffix(path, SlashIndexHtml)
        THEN TrimSuffix(path, SlashIndexHtml)
                 \o <<"/", "i", "n", "d", "e", "x", "~">> \o encodedQuery \o DotHtml
        ELSE TrimSuffix(path, Ext(path)) \o <<"~">> \o encodedQuery \o Ext(path)

\* part_003:32-73  MethodURLToFilePathWithOptions with the default options.
\* filepath.Join(method, protocol, hostname, path) is kept as its four
\* parts: the first three hold no "/", and filepath.Clean changes nothing in
\* the paths drawn here
MethodURLToFilePath(method, parsedURL) ==
    IF parsedURL.Hostname = ""
    THEN [NoFilePath EXCEPT !.err = TRUE]
    ELSE LET path == normalizeResourcePath(
                         IF parsedURL.Path = <<>> THEN <<"/">> ELSE parsedURL.Path)
             withQuery == IF parsedURL.RawQuery # <<>>
                          THEN handleURLParameters(path, parsedURL.RawQuery)
                          ELSE path
         IN  [err |-> FALSE,
              method |-> ToLower(method),
              protocol |-> IF parsedURL.Scheme = ""
                           THEN "http" ELSE ToLower(parsedURL.Scheme),
              hostname |-> ToLower(parsedURL.Hostname),
              rest |-> TrimPrefix(withQuery, <<"/">>)]

\* part_003:272-295  SanitizeFilePath: the unsafe characters become "_"
\* (no element of a path drawn here is a reserved Windows name)
SanitizeFilePath(filePath) ==
    [filePath EXCEPT !.rest =
        [i \in DOMAIN filePath.rest |->
            IF filePath.rest[i] \in {"<", ">", ":", "\"", "|", "?", "*"}
            THEN "_" ELSE filePath.rest[i]]]

\* part_003:202-269  FilePathToMethodURL; the URL it builds,
\* protocol://hostname/path?query, as url.Parse reads it
FilePathToMethodURL(filePath) ==
    LET joined == <<"/">> \o filePath.rest
        path0 == IF HasSuffix(joined, SlashIndexHtml)
                 THEN TrimSuffix(joined, IndexHtml) ELSE joined
        lastTilde == LastIndex(path0, "~")
        ext == Ext(path0)
        before == SubSeq(path0, 1, lastTilde - 1)
        afterTilde == SubSeq(path0, lastTilde + 1, Len(path0))
        isIndex == Contains(before, <<"/", "i", "n", "d", "e", "x">>) /\ ext = DotHtml
        pathBeforeIndex == TrimSuffix(before, <<"/", "i", "n", "d", "e", "x">>)
        path == IF lastTilde = 0 THEN path0
                ELSE IF ext = <<>> THEN before
                ELSE IF isIndex
                THEN (IF pathBeforeIndex = <<>> THEN <<"/">> ELSE pathBeforeIndex)
                ELSE before \o ext
        query == IF lastTilde = 0 THEN <<>>
                 ELSE IF ext = <<>> THEN customDecodeQuery(afterTilde)
                 ELSE customDecodeQuery(TrimSuffix(afterTilde, ext))
    IN  [Method |-> ToUpper(filePath.method),
         URL |-> [Scheme |-> filePath.protocol,
                  Hostname |-> filePath.hostname,
                  Port |-> "",
                  Path |-> path,
                  RawQuery |-> query]]

RECURSIVE Segments(_)
\* the elements of a path between its slashes
Segments(path) ==
    IF LastIndex(path, "/") = 0 THEN <<path>>
    ELSE Append(Segments(SubSeq(path, 1, LastIndex(path, "/") - 1)),
                SubSeq(path, LastIndex(path, "/") + 1, Len(path)))

\* a path filepath.Clean leaves alone: no empty element before the last one,
\* no "." and no ".." element
IsClean(path) ==
    LET segs == Segments(TrimPrefix(path, <<"/">>))
    IN  \A n \in DOMAIN segs :
            /\ segs[n] \notin {<<".">>, <<".", ".">>}
            /\ segs[n] = <<>> => n = Len(segs)

CodecPaths ==
    {<<>>} \cup
    {path \in UNION {[1..n -> PathChars] : n \in 1..MaxPathLen} :
        path[1] = "/" /\ IsClean(path)}

CodecURLs ==
    {[Scheme |-> scheme, Hostname |-> hostname, Port |-> port, Path |-> path,
      RawQuery |-> query] :
        scheme \in {"http", "HTTP"}, hostname \in {"h"}, port \in {"", "81"},
        path \in CodecPaths, query \in {<<>>, <<"q">>, <<"q", " ">>}}
    \cup
    {[Scheme |-> "http", Hostname |-> "", Port |-> "", Path |-> path,
      RawQuery |-> <<>>] : path \in CodecPaths}

CodecMethods == {"GET", "get"}

\* MethodURLToFilePath(method, rawURL) returns a path
CodecEncode ==
    /\ codecPc = "start"
    /\ ~MethodURLToFilePath(codecIn.Method, codecIn.URL).err
    /\ codecPath' = MethodURLToFilePath(codecIn.Method, codecIn.URL)
    /\ codecPc' = "encoded"
    /\ UNCHANGED <<replayVars, watchVars, recVars, storeVars, saverVars, netVars,
                   treeVars, missVars, planVars, convVars, ttfbVars, joinVars, appendVars, codecIn, codecOut>>

\* MethodURLToFilePath(method, rawURL) returns an error
CodecEncodeFail ==
    /\ codecPc = "start"
    /\ MethodURLToFilePath(codecIn.Method, codecIn.URL).err
    /\ codecPath' = MethodURLToFilePath(codecIn.Method, codecIn.URL)
    /\ codecPc' = "failed"
    /\ UNCHANGED <<replayVars, watchVars, recVars, storeVars, saverVars, netVars,
                   treeVars, missVars, planVars, convVars, ttfbVars, joinVars, appendVars, codecIn, codecOut>>

\* FilePathToMethodURL(filePath)
CodecDecode ==
    /\ codecPc = "encoded"
    /\ codecOut' = FilePathToMethodURL(codecPath)
    /\ codecPc' = "decoded"
    /\ UNCHANGED <<replayVars, watchVars, recVars, storeVars, saverVars, netVars,
                   treeVars, missVars, planVars, convVars, ttfbVars, joinVars, appendVars, codecIn, codecPath>>

InitCodec ==
    /\ InitReplayer /\ InitWatcherIdle /\ InitRecorderIdle /\ InitFiles
    /\ InitWatched({InventoryDir}) /\ InitPlanIdle /\ InitConvIdle /\ InitAuxIdle
    /\ disk.state = "missing"
    /\ codecIn \in [Method : CodecMethods, URL : CodecURLs]
    /\ codecPath = NoFilePath
    /\ codecOut = [Method |-> "", URL |-> NoURL]
    /\ codecPc = "start"

NextCodec == CodecEncode \/ CodecEncodeFail \/ CodecDecode

SpecCodec == InitCodec /\ [][NextCodec]_vars

\* ------------------------------------------------ the body file's place
\* The path of the content file a save writes for one recorded (method, URL):
\* GetResourceFilePath, then filepath.Join under <base>/contents.  The URL
\* paths are all the strings over PathChars, "." and ".." elements included.
JoinPaths ==
    {<<>>} \cup
    {path \in UNION {[1..n -> PathChars] : n \in 1..MaxPathLen} : path[1] = "/"}

JoinURLs ==
    {[Scheme |-> scheme, Hostname |-> hostname, Port |-> "", Path |-> path,
      RawQuery |-> query] :
        scheme \in {"http", "HTTP"}, hostname \in {"h", ""},
        path \in JoinPaths, query \in {<<>>, <<"q">>}}

\* the characters of the methods, schemes, hosts and directories used
Chars(str) ==
    CASE str = "get" -> <<"g", "e", "t">>
      [] str = "http" -> <<"h", "t", "t", "p">>
      [] str = "h" -> <<"h">>
      [] str = "contents" -> <<"c", "o", "n", "t", "e", "n", "t", "s">>

Dot == <<".">>

DotDot == <<".", ".">>

RECURSIVE Clean(_, _)
\* filepath.Clean on the elements of a relative path, out being the elements
\* kept so far: an empty element and "." are dropped, ".." takes away the
\* element before it, and stays when there is none or that one is ".."
Clean(elements, out) ==
    IF elements = <<>> THEN out
    ELSE IF Head(elements) \in {<<>>, Dot} THEN Clean(Tail(elements), out)
    ELSE IF Head(elements) = DotDot
    THEN IF out # <<>> /\ out[Len(out)] # DotDot
         THEN Clean(Tail(elements), SubSeq(out, 1, Len(out) - 1))
         ELSE Clean(Tail(elements), Append(out, DotDot))
    ELSE Clean(Tail(elements), Append(out, Head(elements)))

\* filepath.Join: the elements, each cut at its slashes, cleaned
Join(elements) == Clean(elements, <<>>)

\* part_003:69, 301-307  the elements of the path GetResourceFilePath returns
JoinedFilePath(filePath) ==
    Join(<<Chars(filePath.method), Chars(filePath.protocol),
           Chars(filePath.hostname)>>
         \o Segments(SanitizeFilePath(filePath).rest))

\* persistence.go:69-72, 314-323  the transaction of codecIn is saved: the
\* elements, below BaseDir, of the file os.WriteFile is called with
JoinWrite ==
    /\ writePc = "start"
    /\ ~MethodURLToFilePath(codecIn.Method, codecIn.URL).err
    /\ writtenPath' =
           Join(<<Chars("contents")>>
                \o JoinedFilePath(
                       MethodURLToFilePath(codecIn.Method, codecIn.URL)))
    /\ writePc' = "written"
    /\ UNCHANGED <<replayVars, watchVars, recVars, storeVars, saverVars, netVars,
                   treeVars, missVars, codecVars, planVars, convVars, ttfbVars,
                   appendVars>>

\* persistence.go:164-167  GetResourceFilePath fails and nothing is written
JoinReject ==
    /\ writePc = "start"
    /\ MethodURLToFilePath(codecIn.Method, codecIn.URL).err
    /\ writePc' = "failed"
    /\ UNCHANGED <<replayVars, watchVars, recVars, storeVars, saverVars, netVars,
                   treeVars, missVars, codecVars, planVars, convVars, ttfbVars,
                   appendVars, writtenPath>>

InitJoin ==
    /\ InitReplayer /\ InitWatcherIdle /\ InitRecorderIdle /\ InitFiles
    /\ InitWatched({InventoryDir}) /\ InitPlanIdle /\ InitConvIdle
    /\ InitTTFBIdle /\ InitAppendIdle
    /\ disk.state = "missing"
    /\ codecIn \in [Method : CodecMethods, URL : JoinURLs]
    /\ codecPath = NoFilePath
    /\ codecOut = [Method |-> "", URL |-> NoURL]
    /\ codecPc = "idle"
    /\ writtenPath = <<>>
    /\ writePc = "start"

NextJoin == JoinWrite \/ JoinReject

SpecJoin == InitJoin /\ [][NextJoin]_vars

\* ------------------------------------------------ chunk planner alone
\* createBodyChunks applied to one body and one Resource's timing fields.
MaxBodyLen == 5

BodyBytes == {7, 8}

RECURSIVE BodiesOfLen(_)
BodiesOfLen(n) ==
    IF n = 0 THEN {<<>>}
    ELSE { Append(b, x) : b \in BodiesOfLen(n - 1), x \in BodyBytes }

PlanBodies == UNION { BodiesOfLen(n) : n \in 0..MaxBodyLen }

\* TTFBMS and MBPS as the inventory may carry them: no Mbps, zero, an
\* ordinary link, and a link so fast that the whole transfer takes less than
\* one unit of time.Duration
PlanResources ==
    [TTFBMS : {0, 100}, MBPS : {<<>>, <<0>>, <<1>>, <<100000>>}]

InitPlan ==
    /\ InitReplayer /\ InitWatcher /\ InitRecorderIdle
    /\ InitFiles /\ InitWatched({InventoryDir}) /\ InitCodecIdle /\ InitConvIdle /\ InitAuxIdle
    /\ disk.state = "missing"
    /\ planBody \in PlanBodies
    /\ planResource \in PlanResources
    /\ planChunks = <<>>
    /\ planPc = "start"

\* chunks := pm.createBodyChunks(body, resource)
PlanChunks ==
    /\ planPc = "start"
    /\ planChunks' = createBodyChunks(planBody, planResource)
    /\ planPc' = "planned"
    /\ UNCHANGED <<replayVars, watchVars, recVars, storeVars, saverVars, netVars,
                   treeVars, missVars, codecVars, convVars, ttfbVars, joinVars,
                   appendVars, planBody, planResource>>

NextPlan == PlanChunks

SpecChunks == InitPlan /\ [][NextPlan]_vars

\* --------------------------------- a Resource turned into a transaction
\* convertResourceToTransaction with every content source, Content-Encoding
\* and ContentCharset.  A body is a sequence of bytes; in a content file the
\* byte 3 stands for a character every charset has, 4 for one whose encoded
\* form differs from its UTF-8 form, 5 for one the target charset lacks.

\* the outcome of a call that returns ([]byte, error)
Ok(data) == [err |-> FALSE, data |-> data]
Err == [err |-> TRUE, data |-> <<>>]

\* base64.StdEncoding.DecodeString on a string that is either the encoding
\* of some bytes or not base64 at all
decodeBase64Content(base64Content) ==
    IF base64Content.valid THEN Ok(base64Content.data) ELSE Err

\* CreateEncoder knows gzip (among others) and identity; an encoded body
\* starts with the format's magic byte and is longer than its input
EncodeData(data, encodingType) ==
    IF encodingType = "gzip" THEN Ok(<<31>> \o data)
    ELSE IF encodingType = "identity" THEN Ok(data)
    ELSE Err

compressContent(decodedBody, resource) ==
    IF resource.ContentEncoding = <<>> \/ resource.ContentEncoding[1] = "identity"
    THEN Ok(decodedBody)
    ELSE EncodeData(decodedBody, resource.ContentEncoding[1])

\* getEncodingByName: the labels of the table, nil for any other
SupportedCharsets == {"utf-8", "shift_jis"}

\* strings.HasSuffix(charset, "-failed")
FailedCharsets == {"shift_jis-failed"}

RECURSIVE EncodeRunes(_)
EncodeRunes(content) ==
    IF content = <<>> THEN <<>>
    ELSE (IF Head(content) = 4 THEN <<6, 6>> ELSE <<Head(content)>>)
         \o EncodeRunes(Tail(content))

\* convertFromUTF8: nothing to do for UTF-8, an error for an unknown label
\* and for a character the charset cannot encode
convertFromUTF8(content, toCharset) ==
    IF toCharset \in {"", "utf-8"} THEN Ok(content)
    ELSE IF toCharset \notin SupportedCharsets THEN Err
    ELSE IF \E i \in 1..Len(content) : content[i] = 5 THEN Err
    ELSE Ok(EncodeRunes(content))

\* ProcessCharsetForPlayback, the body it returns (the header it edits is a
\* temporary one the caller drops)
ProcessCharsetForPlayback(body, contentCharset) ==
    IF contentCharset \in {"", "utf-8"} THEN Ok(body)
    ELSE IF contentCharset \in FailedCharsets THEN Ok(body)
    ELSE convertFromUTF8(body, contentCharset)

\* loadAndCompressContent in full: read the file, restore the charset (on
\* failure keep the UTF-8 bytes), re-encode
loadAndRestoreContent(resource, files) ==
    IF resource.ContentFilePath[1] \notin DOMAIN files THEN Err
    ELSE
        LET decodedBody == files[resource.ContentFilePath[1]]
            restored ==
                IF resource.ContentCharset # <<>> /\ resource.ContentCharset[1] # ""
                THEN LET r == ProcessCharsetForPlayback(decodedBody,
                                                        resource.ContentCharset[1])
                     IN  IF r.err THEN decodedBody ELSE r.data
                ELSE decodedBody
        IN  compressContent(restored, resource)

\* mutant: a content file is preferred to the inline forms
compressedBodyOfFileFirst(resource, files) ==
    IF resource.ContentFilePath # <<>> THEN
        LET l == loadAndRestoreContent(resource, files)
        IN  IF l.err THEN <<>> ELSE l.data
    ELSE IF resource.ContentUTF8 # <<>> THEN
        LET c == compressContent(resource.ContentUTF8[1], resource)
        IN  IF c.err THEN resource.ContentUTF8[1] ELSE c.data
    ELSE <<>>

\* the content chain of convertResourceToTransaction
compressedBodyOf(resource, files) ==
    IF resource.ContentUTF8 # <<>> THEN
        LET c == compressContent(resource.ContentUTF8[1], resource)
        IN  IF c.err THEN resource.ContentUTF8[1] ELSE c.data
    ELSE IF resource.ContentBase64 # <<>> THEN
        LET dec == decodeBase64Content(resource.ContentBase64[1])
            c == compressContent(dec.data, resource)
        IN  IF dec.err THEN <<>>
            ELSE IF c.err THEN dec.data ELSE c.data
    ELSE IF resource.ContentFilePath # <<>> THEN
        LET l == loadAndRestoreContent(resource, files)
        IN  IF l.err THEN <<>> ELSE l.data
    ELSE <<>>

\* the Content-Type header with its charset parameter replaced
WithCharset(contentType, charset) ==
    [contentType EXCEPT !.Charset = <<charset>>]

\* the headers of the transaction: a copy of RawHeaders, Content-Length set
\* for a non-empty body, Content-Type given the Resource's ContentCharset
RawHeadersOf(resource, compressedBody) ==
    [ContentLength |->
        IF Len(compressedBody) > 0 THEN <<Len(compressedBody)>>
        ELSE resource.RawHeaders.ContentLength,
     ContentType |->
        IF /\ resource.ContentCharset # <<>>
           /\ resource.ContentCharset[1] # ""
           /\ resource.ContentCharset[1] \notin FailedCharsets
           /\ resource.RawHeaders.ContentType # <<>>
        THEN <<WithCharset(resource.RawHeaders.ContentType[1],
                           resource.ContentCharset[1])>>
        ELSE resource.RawHeaders.ContentType]

TransactionOf(resource, files) ==
    LET compressedBody == compressedBodyOf(resource, files)
    IN  [TTFB       |-> resource.TTFBMS * Millisecond,
         RawHeaders |-> RawHeadersOf(resource, compressedBody),
         Chunks     |-> createBodyChunks(compressedBody, resource)]

ContentFile == "a.html"

\* the Resources of the check: each content source absent or present (with
\* an empty, a short and a longer body), each Content-Encoding and
\* ContentCharset, a stored Content-Length and Content-Type or none
ConvResources ==
    [TTFBMS          : {0},
     MBPS            : {<<>>},
     ContentUTF8     : {<<>>, <<<<>>>>, <<<<1>>>>, <<<<1, 1, 1>>>>},
     ContentBase64   : {<<>>}
                        \cup { <<[valid |-> TRUE, data |-> b]>> :
                                 b \in {<<>>, <<2>>} }
                        \cup { <<[valid |-> FALSE, data |-> <<>>]>> },
     ContentFilePath : {<<>>, <<ContentFile>>},
     ContentEncoding : {<<>>, <<"identity">>, <<"gzip">>, <<"zz">>},
     ContentCharset  : {<<>>, <<"">>, <<"utf-8">>, <<"shift_jis">>,
                        <<"shift_jis-failed">>, <<"x-none">>},
     RawHeaders      :
        [ContentLength : {<<>>, <<99>>},
         ContentType   : {<<>>,
                          <<[Mime |-> "text/html", Charset |-> <<>>]>>,
                          <<[Mime |-> "text/html", Charset |-> <<"utf-8">>]>>}]]

ConvFiles ==
    {<<>>} \cup { [path \in {ContentFile} |-> b] :
                     b \in {<<>>, <<3>>, <<3, 4, 3>>, <<3, 5>>} }

InitConvert ==
    /\ InitReplayer /\ InitWatcher /\ InitRecorderIdle
    /\ InitFiles /\ InitWatched({InventoryDir}) /\ InitCodecIdle /\ InitPlanIdle
    /\ InitAuxIdle
    /\ disk.state = "missing"
    /\ convResource \in ConvResources
    /\ convFiles \in ConvFiles
    /\ convTransaction = <<>>
    /\ convPc = "start"

\* transaction, err := pm.convertResourceToTransaction(&resource)
Convert ==
    /\ convPc = "start"
    /\ convTransaction' = <<TransactionOf(convResource, convFiles)>>
    /\ convPc' = "done"
    /\ UNCHANGED <<replayVars, watchVars, recVars, storeVars, saverVars, netVars,
                   treeVars, missVars, codecVars, planVars, ttfbVars, joinVars,
                   appendVars, convResource, convFiles>>

NextConvert == Convert

SpecConvert == InitConvert /\ [][NextConvert]_vars

\* ----------------------------------------------------------- the Recorder
RFlows == {1, 2}
RecRequests == {[Method |-> "GET", URL |-> "http://h/a"],
                [Method |-> "POST", URL |-> "http://h/a"],
                [Method |-> "GET", URL |-> "http://h/b"]}
MaxRequests == 2
Headroom == 1
RecMaxTime == 50000

\* recording.go:75  len(p.transactions) < 10000
MaxTransactions == 10000

\* the zero time.Time; a time that was set is <<t>>
ZeroTime == <<>>

\* time.Time.IsZero
IsZero(t) == t = ZeroTime

\* the responses of the upstream: status, http.Header (name -> values), body
\* (<<>> is a nil body)
Responses ==
    {[StatusCode |-> 200,
      Header |-> [n \in {"Content-Type", "Set-Cookie"} |->
                     IF n = "Set-Cookie" THEN <<"a=1", "b=2">>
                     ELSE <<"text/html">>],
      Body |-> <<1, 2>>],
     [StatusCode |-> 404,
      Header |-> [n \in {"X-Empty"} |-> <<>>],
      Body |-> <<>>]}

NoHeaders == [n \in {} |-> ""]

\* recording.go:66-71  the RecordingTransaction a request starts
NewRecordingTransaction(method, url, t) ==
    [Method |-> method, URL |-> url, RequestStarted |-> <<t>>,
     ResponseStarted |-> ZeroTime, ResponseFinished |-> ZeroTime,
     StatusCode |-> <<>>, RawHeaders |-> NoHeaders, Body |-> <<>>]

\* the local `transaction` of a Request hook that builds none
NoRecording ==
    [Method |-> "", URL |-> "", RequestStarted |-> ZeroTime,
     ResponseStarted |-> ZeroTime, ResponseFinished |-> ZeroTime,
     StatusCode |-> <<>>, RawHeaders |-> NoHeaders, Body |-> <<>>]

\* a flow of the recorder: its place in the hooks, its request, the entry
\* its Request hook appended (slot, 0 for none) and the entry its Response
\* hook updated (i, 0 for none)
IdleRFlow == [pc |-> "Idle", Method |-> "", URL |-> "",
              transaction |-> NoRecording, i |-> 0, stored |-> FALSE,
              slot |-> 0]

\* len(p.transactions)
RecordedCount == recordedBefore + Len(transactions)

\* mutant: the cap is tested with <=
UnderCapInclusive(n) == n <= MaxTransactions

\* recording.go:75  if len(p.transactions) < 10000
UnderCap(n) == n < MaxTransactions

\* recording.go:92-93  the test of the loop's body
Matches(transaction, method, url) ==
    /\ transaction.Method = method
    /\ transaction.URL = url
    /\ IsZero(transaction.ResponseStarted)

\* a loop that runs from the head of the list
RECURSIVE ScanForward(_, _, _, _)
ScanForward(list, i, method, url) ==
    IF i > Len(list) THEN 0
    ELSE IF Matches(list[i], method, url) THEN i
    ELSE ScanForward(list, i + 1, method, url)

\* recording.go:91-93  for i := len(p.transactions) - 1; i >= 0; i--
\* the position at which the loop breaks, counted from 1; 0 when it runs to
\* the end: the recordedBefore entries at the head have their ResponseStarted
\* set and the loop passes them
RECURSIVE ScanBackward(_, _, _, _)
ScanBackward(list, i, method, url) ==
    IF i < 1 THEN 0
    ELSE IF Matches(list[i], method, url) THEN i
    ELSE ScanBackward(list, i - 1, method, url)

\* mutant: the loop runs from the head of the list
FindFirst(list, method, url) == ScanForward(list, 1, method, url)

\* recording.go:91-136  the index of the entry the loop updates, 0 for none
FindLast(list, method, url) == ScanBackward(list, Len(list), method, url)

\* mutant: the last value of a name is kept
CopyHeadersLast(rawHeaders, header) ==
    LET named == {n \in DOMAIN header : Len(header[n]) > 0}
    IN  [n \in (DOMAIN rawHeaders) \cup named |->
            IF n \in named THEN header[n][Len(header[n])] ELSE rawHeaders[n]]

\* recording.go:101-105  RawHeaders[name] = values[0] for each name that has
\* a value
CopyHeaders(rawHeaders, header) ==
    LET named == {n \in DOMAIN header : Len(header[n]) > 0}
    IN  [n \in (DOMAIN rawHeaders) \cup named |->
            IF n \in named THEN header[n][1] ELSE rawHeaders[n]]

\* recording.go:94-113  what the loop's body does to the entry
RecordResponse(transaction, response, t) ==
    [transaction EXCEPT
        !.ResponseStarted = <<t>>,
        !.StatusCode = <<response.StatusCode>>,
        !.RawHeaders = CopyHeaders(@, response.Header),
        !.Body = IF response.Body # <<>> THEN response.Body ELSE @,
        !.ResponseFinished = <<t>>]

\* recording.go:61-71  the Request hook builds the transaction
RecRequest(f, req) ==
    /\ rflow[f].pc = "Idle"
    /\ requestsLeft > 0
    /\ requestsLeft' = requestsLeft - 1
    /\ rflow' = [rflow EXCEPT ![f] =
                    [pc |-> "RequestLock", Method |-> req.Method,
                     URL |-> req.URL,
                     transaction |->
                         NewRecordingTransaction(req.Method, req.URL, now),
                     i |-> 0, stored |-> FALSE, slot |-> 0]]
    /\ UNCHANGED <<replayVars, watchVars, extVars, transactions, recordedBefore,
                   recMutex>>

\* recording.go:74  p.mutex.Lock()
RecRequestLock(f) ==
    /\ rflow[f].pc = "RequestLock"
    /\ recMutex = 0
    /\ recMutex' = f
    /\ rflow' = [rflow EXCEPT ![f].pc = "RequestAppend"]
    /\ UNCHANGED <<replayVars, watchVars, extVars, transactions, recordedBefore,
                   requestsLeft>>

\* recording.go:75-78  append unless the list is full
RecRequestAppend(f) ==
    /\ rflow[f].pc = "RequestAppend"
    /\ IF UnderCap(RecordedCount)
       THEN /\ transactions' = Append(transactions, rflow[f].transaction)
            /\ rflow' = [rflow EXCEPT ![f].pc = "RequestUnlock",
                                      ![f].stored = TRUE,
                                      ![f].slot = Len(transactions) + 1]
       ELSE /\ rflow' = [rflow EXCEPT ![f].pc = "RequestUnlock"]
            /\ UNCHANGED transactions
    /\ UNCHANGED <<replayVars, watchVars, extVars, recordedBefore, recMutex,
                   requestsLeft>>

\* recording.go:79-81  p.mutex.Unlock(); the hook returns
RecRequestUnlock(f) ==
    /\ rflow[f].pc = "RequestUnlock"
    /\ recMutex' = 0
    /\ rflow' = [rflow EXCEPT ![f].pc = "Upstream",
                              ![f].transaction = NoRecording]
    /\ UNCHANGED <<replayVars, watchVars, extVars, transactions, recordedBefore,
                   requestsLeft>>

\* the upstream fails: the flow ends and the Response hook is not called
RecUpstreamError(f) ==
    /\ rflow[f].pc = "Upstream"
    /\ rflow' = [rflow EXCEPT ![f] = IdleRFlow]
    /\ UNCHANGED <<replayVars, watchVars, extVars, transactions, recordedBefore,
                   recMutex, requestsLeft>>

\* recording.go:83-90  the Response hook; p.mutex.Lock()
RecResponseLock(f) ==
    /\ rflow[f].pc = "Upstream"
    /\ recMutex = 0
    /\ recMutex' = f
    /\ rflow' = [rflow EXCEPT ![f].pc = "ResponseScan"]
    /\ UNCHANGED <<replayVars, watchVars, extVars, transactions, recordedBefore,
                   requestsLeft>>

\* recording.go:91-138  the loop: the entry at which it breaks is updated
RecResponseScan(f, response) ==
    /\ rflow[f].pc = "ResponseScan"
    /\ LET i == FindLast(transactions, rflow[f].Method, rflow[f].URL)
       IN  /\ transactions' =
                  IF i = 0 THEN transactions
                  ELSE [transactions EXCEPT
                           ![i] = RecordResponse(@, response, now)]
           /\ rflow' = [rflow EXCEPT ![f].pc = "ResponseUnlock", ![f].i = i]
    /\ UNCHANGED <<replayVars, watchVars, extVars, recordedBefore, recMutex,
                   requestsLeft>>

\* recording.go:140-141  p.mutex.Unlock(); the hook returns and the flow ends
RecResponseUnlock(f) ==
    /\ rflow[f].pc = "ResponseUnlock"
    /\ recMutex' = 0
    /\ rflow' = [rflow EXCEPT ![f] = IdleRFlow]
    /\ UNCHANGED <<replayVars, watchVars, extVars, transactions, recordedBefore,
                   requestsLeft>>

\* the Recorder starts empty; it is also looked at when all but Headroom
\* places of its list are taken by transactions recorded with their responses
InitRecorder ==
    /\ transactions = <<>>
    /\ recordedBefore \in {0, MaxTransactions - Headroom}
    /\ recMutex = 0
    /\ rflow = [f \in RFlows |-> IdleRFlow]
    /\ requestsLeft = MaxRequests

\* time passes while the flows run
RecTick ==
    /\ now < RecMaxTime
    /\ Tick(now + TimeStep)

InitRec == InitReplayer /\ InitWatcherIdle /\ InitRecorder /\ InitStore

NextRecorder ==
    \/ \E f \in RFlows, req \in RecRequests : RecRequest(f, req)
    \/ \E f \in RFlows : RecRequestLock(f)
    \/ \E f \in RFlows : RecRequestAppend(f)
    \/ \E f \in RFlows : RecRequestUnlock(f)
    \/ \E f \in RFlows : RecUpstreamError(f)
    \/ \E f \in RFlows : RecResponseLock(f)
    \/ \E f \in RFlows, response \in Responses : RecResponseScan(f, response)
    \/ \E f \in RFlows : RecResponseUnlock(f)
    \/ RecTick

SpecRecorder == InitRec /\ [][NextRecorder]_vars

\* ------------------------------------------------- the inventory store
MaxBatch == 2

\* the float64 totalBits / (transferSeconds * 1024 * 1024), kept as the two
\* numbers it is computed from; it is positive when both are
Mbps(totalBits, transferMicros) == [bits |-> totalBits, micros |-> transferMicros]

\* persistence.go:127  var mbpsValue float64
ZeroMbps == Mbps(0, 0)

Positive(mbps) == mbps.bits > 0 /\ mbps.micros > 0

\* time.Time.Sub in microseconds, for times that are set
Sub(t, u) == t[1] - u[1]

\* time.Time.After; the zero time is before every time that is set
After(t, u) ==
    /\ ~IsZero(t)
    /\ IsZero(u) \/ t[1] > u[1]

\* resource.GetResourceFilePath: <method>/<scheme>/<host>/<path>, with
\* index.html for a path without extension
GetResourceFilePath(method, url) ==
    (IF method = "GET" THEN "get" ELSE "post")
        \o (IF url = "http://h/a" THEN "/http/h/a/index.html"
            ELSE "/http/h/b/index.html")

\* time.Duration.Milliseconds: the whole milliseconds of d, toward zero;
\* unit is the number of clock units in a millisecond
Milliseconds(d, unit) == IF d >= 0 THEN d \div unit ELSE -((-d) \div unit)

\* mutant: only a negative TTFB is reset
ClampTTFBNoCeiling(ms) == IF ms < 0 THEN 0 ELSE ms

\* persistence.go:119-123  a TTFB that is negative or above one hour is 0
ClampTTFB(ms) == IF ms < 0 \/ ms > 3600000 THEN 0 ELSE ms

\* persistence.go:116-124  ttfbMS, 0 unless both times are set
ttfbMSOf(requestStarted, responseStarted, unit) ==
    IF ~IsZero(responseStarted) /\ ~IsZero(requestStarted)
    THEN ClampTTFB(Milliseconds(Sub(responseStarted, requestStarted), unit))
    ELSE 0

\* persistence.go:112-191  convertRecordingTransactionToResource (the fields
\* taken from Content-Type and Content-Encoding are left out: no recording
\* stored here carries these headers)
convertRecordingTransactionToResource(transaction) ==
    LET ttfbMS == ttfbMSOf(transaction.RequestStarted,
                           transaction.ResponseStarted, Millisecond)
        transferred == /\ ~IsZero(transaction.ResponseStarted)
                       /\ ~IsZero(transaction.ResponseFinished)
        transferDuration ==
            IF transferred
            THEN Sub(transaction.ResponseFinished, transaction.ResponseStarted)
            ELSE 0
        mbpsValue == IF transferDuration > 0 /\ Len(transaction.Body) > 0
                     THEN Mbps(Len(transaction.Body) * 8, transferDuration)
                     ELSE ZeroMbps
    IN  [Method |-> transaction.Method,
         URL |-> transaction.URL,
         StatusCode |-> transaction.StatusCode,
         RawHeaders |-> transaction.RawHeaders,
         TTFBMS |-> ttfbMS,
         MBPS |-> <<mbpsValue>>,
         ContentFilePath |->
             <<GetResourceFilePath(transaction.Method, transaction.URL)>>,
         Timestamp |-> transaction.RequestStarted]

\* mutant: only a later Timestamp replaces
ReplacesIfNewer(resource, existingResource) ==
    After(resource.Timestamp, existingResource.Timestamp)

\* persistence.go:61-62, 225-226  the test that lets the new Resource replace
\* the one held under its key
Replaces(resource, existingResource) ==
    \/ After(resource.Timestamp, existingResource.Timestamp)
    \/ /\ resource.MBPS # <<>>
       /\ Positive(resource.MBPS[1])
       /\ \/ existingResource.MBPS = <<>>
          \/ existingResource.MBPS[1].bits = 0

\* persistence.go:269-327  saveDecodedBody: without Content-Encoding and
\* Content-Type the bytes written are the body's
saveDecodedBody(files, filePath, transaction) ==
    [p \in (DOMAIN files) \cup {filePath} |->
        IF p = filePath THEN transaction.Body ELSE files[p]]

\* mutant: the body is saved before the test of the key
SkipBodySaved(files, filePath, transaction) ==
    saveDecodedBody(files, filePath, transaction)

\* persistence.go:66, 229  continue / return nil: the body is not saved
SkipBody(files, filePath, transaction) == files

\* persistence.go:49-87  one turn of the loop over the transactions:
\* resourceMap and the content files it leaves
SaveTurn(rmap, files, transaction) ==
    LET resource == convertRecordingTransactionToResource(transaction)
        key == Key(resource.Method, resource.URL)
    IN  IF key \in DOMAIN rmap
        THEN [resourceMap |-> IF Replaces(resource, rmap[key])
                              THEN [rmap EXCEPT ![key] = resource]
                              ELSE rmap,
              files |-> SkipBody(files, resource.ContentFilePath[1],
                                 transaction)]
        ELSE [resourceMap |-> [k \in (DOMAIN rmap) \cup {key} |->
                                  IF k = key THEN resource ELSE rmap[k]],
              files |-> saveDecodedBody(files, resource.ContentFilePath[1],
                                        transaction)]

\* persistence.go:89-93  for _, resource := range resourceMap: the slices
\* the iteration over the map can give
Slices(rmap) ==
    {seq \in [1..Cardinality(DOMAIN rmap) -> DOMAIN rmap] :
        \A k \in DOMAIN rmap : \E n \in DOMAIN seq : seq[n] = k}

RECURSIVE FindKey(_, _, _)
\* mutant: no Resource of the inventory is taken for the same key
FindKeyNever(resources, i, key) == 0

\* persistence.go:221-223  the index of the first Resource with the key, from
\* the i-th on; 0 when there is none
FindKey(resources, i, key) ==
    IF i > Len(resources) THEN 0
    ELSE IF Key(resources[i].Method, resources[i].URL) = key THEN i
    ELSE FindKey(resources, i + 1, key)

\* persistence.go:194-266  AppendRecordedTransaction: the Resources and the
\* content files it leaves
AppendResult(resources, files, transaction) ==
    LET resource == convertRecordingTransactionToResource(transaction)
        key == Key(resource.Method, resource.URL)
        i == FindKey(resources, 1, key)
    IN  IF i # 0 /\ ~Replaces(resource, resources[i])
        THEN [resources |-> resources,
              files |-> SkipBody(files, resource.ContentFilePath[1],
                                 transaction)]
        ELSE [resources |-> IF i # 0
                            THEN [resources EXCEPT ![i] = resource]
                            ELSE Append(resources, resource),
              files |-> saveDecodedBody(files, resource.ContentFilePath[1],
                                        transaction)]

\* the recorded transactions handed to the store
StoreRecordings ==
    {[NewRecordingTransaction(req.Method, req.URL, t) EXCEPT
         !.ResponseStarted = <<t + TimeStep>>,
         !.ResponseFinished = <<t + TimeStep + d>>,
         !.StatusCode = <<200>>,
         !.Body = IF d = 0 THEN <<7>> ELSE <<8, 9>>] :
        req \in {r \in RecRequests : r.Method = "GET"},
        t \in {0, TimeStep},
        d \in {0, TimeStep}}

\* what an operation on the inventory did
Outcome(before, after) ==
    IF after = before THEN "discarded"
    ELSE IF Cardinality(DOMAIN after) = Cardinality(DOMAIN before)
    THEN "replaced" ELSE "added"

StoreOp(kind, input, outcome) ==
    [kind |-> kind, input |-> input, outcome |-> outcome, n |-> 1 - storeOp.n]

\* persistence.go:40-47  SaveRecordedTransactionsWithOptions is called with
\* n transactions
StoreSaveBegin(n) ==
    /\ savePc = "idle"
    /\ savePc' = "loop"
    /\ resourceMap' = EmptyMap
    /\ batchLeft' = n
    /\ storeOp' = StoreOp("SaveBegin", <<>>, "none")
    /\ UNCHANGED <<replayVars, watchVars, recVars, saverVars, netVars, treeVars, missVars, codecVars, planVars, convVars, ttfbVars, joinVars, appendVars,
                   manifest, contents>>

\* persistence.go:49-87  the loop's turn for the next transaction
StoreSaveTurn(transaction) ==
    /\ savePc = "loop"
    /\ batchLeft > 0
    /\ batchLeft' = batchLeft - 1
    /\ LET saved == SaveTurn(resourceMap, contents, transaction)
       IN  /\ resourceMap' = saved.resourceMap
           /\ contents' = saved.files
           /\ storeOp' = StoreOp("SaveTurn", <<transaction>>,
                                 Outcome(resourceMap, saved.resourceMap))
    /\ UNCHANGED <<replayVars, watchVars, recVars, saverVars, netVars, treeVars, missVars, codecVars, planVars, convVars, ttfbVars, joinVars, appendVars,
                   manifest, savePc>>

\* persistence.go:89-108  the Resources of resourceMap are written to
\* inventory.json
StoreSaveEnd(slice) ==
    /\ savePc = "loop"
    /\ batchLeft = 0
    /\ slice \in Slices(resourceMap)
    /\ manifest' = [n \in DOMAIN slice |-> resourceMap[slice[n]]]
    /\ savePc' = "idle"
    /\ resourceMap' = EmptyMap
    /\ storeOp' = StoreOp("SaveEnd", <<>>, "saved")
    /\ UNCHANGED <<replayVars, watchVars, recVars, saverVars, netVars, treeVars, missVars, codecVars, planVars, convVars, ttfbVars, joinVars, appendVars,
                   contents, batchLeft>>

\* persistence.go:194-266  AppendRecordedTransaction
StoreAppend(transaction) ==
    /\ savePc = "idle"
    /\ LET appended == AppendResult(manifest, contents, transaction)
       IN  /\ manifest' = appended.resources
           /\ contents' = appended.files
           /\ storeOp' = StoreOp("Append", <<transaction>>,
                                 Outcome(manifest, appended.resources))
    /\ UNCHANGED <<replayVars, watchVars, recVars, saverVars, netVars, treeVars, missVars, codecVars, planVars, convVars, ttfbVars, joinVars, appendVars,
                   resourceMap, savePc,
                   batchLeft>>

InitInventory == InitReplayer /\ InitWatcherIdle /\ InitRecorderIdle /\ InitStore

NextStore ==
    \/ \E n \in 0..MaxBatch : StoreSaveBegin(n)
    \/ \E transaction \in StoreRecordings : StoreSaveTurn(transaction)
    \/ \E slice \in Slices(resourceMap) : StoreSaveEnd(slice)
    \/ \E transaction \in StoreRecordings : StoreAppend(transaction)

SpecStore == InitInventory /\ [][NextStore]_vars

\* ------------------------------------- AppendRecordedTransaction, charsets
\* A recorded transaction together with what its Content-Type header and its
\* body say about the charset: the header's media type and charset parameter,
\* and the charset the body declares in a meta tag or an @charset rule.
\* The transactions are those of one URL and one of another URL.
AppendInputs ==
    [transaction : {t \in StoreRecordings :
                       \/ t.URL = "http://h/a"
                       \/ t.RequestStarted = <<0>> /\ t.Body = <<7>>},
     ContentType : [Mime : {"text/html", "image/png"},
                    Charset : {"", "shift_jis"}],
     declared : {"", "utf-8", "x-none"}]

\* charset.go:27-50  detectCharset: the charset of the header, and the one
\* the body declares when the content is HTML or CSS
detectCharset(contentType, declared) ==
    [httpCharset |-> contentType.Charset,
     contentCharset |-> IF contentType.Mime \in {"text/html", "text/css"}
                        THEN declared ELSE ""]

\* charset.go:190-213  processCharsetForRecording: the two charsets it
\* returns; a charset without a decoder is marked as failed
ProcessCharsetForRecording(contentType, declared) ==
    LET detected == detectCharset(contentType, declared)
        finalCharset == IF detected.contentCharset # ""
                        THEN detected.contentCharset ELSE detected.httpCharset
    IN  [httpCharset |-> detected.httpCharset,
         contentCharset |->
             IF finalCharset = "" \/ finalCharset = "utf-8" THEN finalCharset
             ELSE IF finalCharset \in SupportedCharsets THEN finalCharset
             ELSE finalCharset \o "-failed"]

\* persistence.go:138-154, 168-188  the Resource of an input: the charset of
\* the Content-Type header is set, ContentCharset is not
ResourceOfInput(input) ==
    [n \in DOMAIN convertRecordingTransactionToResource(input.transaction)
            \cup {"ContentTypeCharset", "ContentCharset"} |->
        IF n = "ContentTypeCharset"
        THEN IF input.ContentType.Charset # ""
             THEN <<input.ContentType.Charset>> ELSE <<>>
        ELSE IF n = "ContentCharset" THEN <<>>
        ELSE convertRecordingTransactionToResource(input.transaction)[n]]

\* persistence.go:239-253  the Resource after saveDecodedBody returned the
\* two charsets
WithSavedCharsets(resource, input) ==
    LET saved == ProcessCharsetForRecording(input.ContentType, input.declared)
    IN  [resource EXCEPT
            !.ContentTypeCharset =
                IF saved.httpCharset # "" THEN <<saved.httpCharset>> ELSE @,
            !.ContentCharset =
                IF saved.contentCharset # "" THEN <<saved.contentCharset>> ELSE @]

\* persistence.go:219-258  the Resources AppendRecordedTransaction writes:
\* inventory.Resources[i] = *resource copies the Resource before the body is
\* saved, append(inventory.Resources, *resource) copies it afterwards
AppendedResources(resources, input) ==
    LET resource == ResourceOfInput(input)
        i == FindKey(resources, 1, Key(resource.Method, resource.URL))
    IN  IF i # 0 /\ ~Replaces(resource, resources[i]) THEN resources
        ELSE IF i # 0 THEN [resources EXCEPT ![i] = resource]
        ELSE Append(resources, WithSavedCharsets(resource, input))

\* persistence.go:194-266  AppendRecordedTransaction is called
AppendCall(input) ==
    /\ appendIn' = <<input>>
    /\ appendOut' = AppendedResources(appendOut, input)
    /\ appendPc' = IF appendOut' = appendOut THEN "discarded"
                   ELSE IF Len(appendOut') = Len(appendOut) THEN "replaced"
                   ELSE "added"
    /\ UNCHANGED <<replayVars, watchVars, recVars, storeVars, saverVars, netVars,
                   treeVars, missVars, codecVars, planVars, convVars, ttfbVars,
                   joinVars>>

InitAppend ==
    /\ InitReplayer /\ InitWatcherIdle /\ InitRecorderIdle /\ InitFiles
    /\ InitWatched({InventoryDir}) /\ InitCodecIdle /\ InitPlanIdle
    /\ InitConvIdle /\ InitTTFBIdle /\ InitJoinIdle
    /\ disk.state = "missing"
    /\ InitAppendIdle

NextAppend == \E input \in AppendInputs : AppendCall(input)

SpecAppend == InitAppend /\ [][NextAppend]_vars

\* ------------------------------------------------ the TTFB of a Resource
\* The TTFB computed from the two times of a recording, on a clock that
\* counts milliseconds so that it can stand more than an hour apart.
ClockTimes == {0, 1, 2, 5, 3600000, 3600001, 3600005, 3600006, 7200000}

RecordedTimes == {ZeroTime} \cup { <<t>> : t \in ClockTimes }

InitTTFB ==
    /\ InitReplayer /\ InitWatcher /\ InitRecorderIdle
    /\ InitFiles /\ InitWatched({InventoryDir}) /\ InitCodecIdle /\ InitPlanIdle
    /\ InitConvIdle /\ InitJoinIdle /\ InitAppendIdle
    /\ disk.state = "missing"
    /\ ttfbIn \in [RequestStarted : RecordedTimes, ResponseStarted : RecordedTimes]
    /\ ttfbOut = 0
    /\ ttfbPc = "start"

\* persistence.go:115-124, 171
TTFBCompute ==
    /\ ttfbPc = "start"
    /\ ttfbOut' = ttfbMSOf(ttfbIn.RequestStarted, ttfbIn.ResponseStarted, 1)
    /\ ttfbPc' = "done"
    /\ UNCHANGED <<replayVars, watchVars, recVars, storeVars, saverVars, netVars,
                   treeVars, missVars, codecVars, planVars, convVars, joinVars,
                   appendVars, ttfbIn>>

NextTTFB == TTFBCompute

SpecTTFB == InitTTFB /\ [][NextTTFB]_vars

\* ------------------------------------------ the stored body, read back
\* persistence.go:512-566  loadAndCompressContent for a Resource the store
\* wrote without Content-Encoding, ContentCharset and Minify: the bytes of
\* the content file; a file that cannot be read is an error, and
\* convertResourceToTransaction (452-459) then takes an empty body
loadAndCompressContent(resource, files) ==
    IF resource.ContentFilePath[1] \in DOMAIN files
    THEN files[resource.ContentFilePath[1]]
    ELSE <<>>

\* playback.go:143-149  the status the replay answers with: 200 unless the
\* Resource carries one
PlaybackStatus(resource) ==
    IF resource.StatusCode = <<>> THEN 200 ELSE resource.StatusCode[1]

\* ------------------------------------- the inventory and a path codec error
\* part_003:32-52  MethodURLToFilePathWithOptions returns an error when
\* url.Parse fails or the URL has no hostname
CodecFails(url) == url \in {"http:///a"}

\* recorded transactions whose URL the path codec refuses
BadRecordings ==
    {[NewRecordingTransaction("GET", "http:///a", t) EXCEPT
         !.ResponseStarted = <<t + TimeStep>>,
         !.ResponseFinished = <<t + TimeStep>>,
         !.StatusCode = <<200>>,
         !.Body = <<7>>] : t \in {0, TimeStep}}

\* persistence.go:49-53, 163-167  the loop's turn for a transaction whose
\* conversion fails: return fmt.Errorf("failed to convert ..."), before
\* anything is written
StoreSaveFail(transaction) ==
    /\ savePc = "loop"
    /\ batchLeft > 0
    /\ CodecFails(transaction.URL)
    /\ savePc' = "idle"
    /\ batchLeft' = 0
    /\ resourceMap' = EmptyMap
    /\ storeOp' = StoreOp("SaveTurn", <<transaction>>, "error")
    /\ UNCHANGED <<replayVars, watchVars, recVars, saverVars, netVars, treeVars, missVars, codecVars, planVars, convVars, ttfbVars, joinVars, appendVars,
                   manifest, contents>>

NextCodecFail ==
    \/ \E n \in 0..MaxBatch : StoreSaveBegin(n)
    \/ \E transaction \in StoreRecordings :
          ~CodecFails(transaction.URL) /\ StoreSaveTurn(transaction)
    \/ \E transaction \in BadRecordings : StoreSaveFail(transaction)
    \/ \E slice \in Slices(resourceMap) : StoreSaveEnd(slice)

SpecCodecFail == InitInventory /\ [][NextCodecFail]_vars

\* ----------------------------------------------- RecordingPlugin.SaveInventory
\* responses without Content-Type and Content-Encoding: their bodies are
\* stored as they are
UntypedResponses ==
    {[StatusCode |-> 200,
      Header |-> [n \in {"Server"} |-> <<"s">>],
      Body |-> <<1, 2>>],
     [StatusCode |-> 404,
      Header |-> [n \in {"X-Empty"} |-> <<>>],
      Body |-> <<>>]}

\* recording.go:144-153  under p.mutex.RLock the entries are copied (each
\* copy shares its RawHeaders map with the entry); with no entry the save
\* returns, else SaveRecordedTransactionsWithOptions is called with the copy
SaveInventoryCopy ==
    /\ saverPc = "idle"
    /\ recMutex = 0
    /\ saveCopy' = transactions
    /\ saverPc' = "persist"
    /\ IF Len(transactions) = 0
       THEN UNCHANGED <<savePc, resourceMap, batchLeft, storeOp>>
       ELSE /\ savePc' = "loop"
            /\ resourceMap' = EmptyMap
            /\ batchLeft' = Len(transactions)
            /\ storeOp' = StoreOp("SaveBegin", <<>>, "none")
    /\ UNCHANGED <<replayVars, watchVars, recVars, netVars, treeVars, missVars, codecVars, planVars, convVars, ttfbVars, joinVars, appendVars,
                   manifest,
                   contents>>

\* the position in the copy of the transaction the loop takes next
NextToSave == Len(saveCopy) - batchLeft + 1

\* the RawHeaders map of an entry is read without the lock: what the save
\* finds there is what the copy was taken with, or what a Response hook has
\* written since
HeadersRead(i) == {saveCopy[i].RawHeaders, transactions[i].RawHeaders}

\* persistence.go:49-87 called from recording.go:156  the loop's turn for the
\* next transaction of the copy
SaveInventoryTurn(rawHeaders) ==
    /\ saverPc = "persist"
    /\ batchLeft > 0
    /\ rawHeaders \in HeadersRead(NextToSave)
    /\ StoreSaveTurn([saveCopy[NextToSave] EXCEPT !.RawHeaders = rawHeaders])

\* persistence.go:89-108 called from recording.go:156
SaveInventoryEnd(slice) ==
    /\ saverPc = "persist"
    /\ StoreSaveEnd(slice)

\* proxy.go:39-49  the process exits when SaveInventory has returned
Exited == saverPc = "persist" /\ savePc = "idle"

InitSave ==
    /\ InitReplayer /\ InitWatcherIdle /\ InitStore
    /\ InitRecorder
    /\ recordedBefore = 0

NextSave ==
    /\ ~Exited
    /\ \/ \E f \in RFlows, req \in RecRequests : RecRequest(f, req)
       \/ \E f \in RFlows : RecRequestLock(f)
       \/ \E f \in RFlows : RecRequestAppend(f)
       \/ \E f \in RFlows : RecRequestUnlock(f)
       \/ \E f \in RFlows : RecUpstreamError(f)
       \/ \E f \in RFlows : RecResponseLock(f)
       \/ \E f \in RFlows, response \in UntypedResponses :
             RecResponseScan(f, response)
       \/ \E f \in RFlows : RecResponseUnlock(f)
       \/ SaveInventoryCopy
       \/ \E rawHeaders \in UNION {HeadersRead(i) : i \in DOMAIN saveCopy} :
             SaveInventoryTurn(rawHeaders)
       \/ \E slice \in Slices(resourceMap) : SaveInventoryEnd(slice)

SpecSave == InitSave /\ [][NextSave]_vars

\* ------------------------------------------------------------ claims C1-C5
Replaying(f) == flow[f].transaction # Nil

\* C1: every chunk written so far was written at or after request_start +
\* target_offset, and the send time it was paced against is request_start +
\* target_offset whatever the time at which earlier chunks were written.
C1_AbsoluteDeadline ==
    \A f \in Flows :
        Replaying(f) =>
            \A k \in 1..Len(flow[f].sent) :
                LET chunk == Chunks(f)[k]
                    due == flow[f].startTime + chunk.TargetOffset
                IN  /\ flow[f].sent[k].at >= due
                    /\ chunk.TargetOffset > 0 => flow[f].sent[k].target = due

\* the first chunk was written late, the second one exactly when it was due
C1_Witness ==
    \E f \in Flows :
        /\ Replaying(f)
        /\ Len(flow[f].sent) >= 2
        /\ Chunks(f)[2].TargetOffset > Chunks(f)[1].TargetOffset
        /\ flow[f].sent[1].at > flow[f].sent[1].target
        /\ flow[f].sent[2].at = flow[f].startTime + Chunks(f)[2].TargetOffset

\* C2: while the replay paces the next chunk, the client has received every
\* chunk already emitted.
C2_FlushedPerChunk ==
    \A f \in Flows :
        (Replaying(f) /\ flow[f].pc \in {"Pace", "Sleeping"}) =>
            Delivered(f) = flow[f].bodyBuffer

\* C3: the body of a replayed response is the concatenation of all chunks of
\* the transaction, in order, whatever the delays.
C3_BodyIsAllChunks ==
    \A f \in Flows :
        (flow[f].pc = "Done" /\ flow[f].response.playback) =>
            flow[f].response.Body = Concat(flow[f].captured.Chunks)

\* a replay is done and one of its chunks was written after its send time
C3_Witness ==
    \E f \in Flows :
        /\ flow[f].pc = "Done"
        /\ flow[f].response.playback
        /\ flow[f].response.Body # <<>>
        /\ \E k \in 1..Len(flow[f].sent) :
              flow[f].sent[k].at > flow[f].sent[k].target

\* C4: a lookup holding the read lock sees the map as the last completed
\* load or reload left it, and its result is the one that map gives.
C4_LookupSeesCompleteMap ==
    \A f \in Flows :
        /\ f \in mutexReaders =>
              MapView(transactionMap, txHeap) = stableMap
        /\ flow[f].pc = "RUnlock" =>
              IF flow[f].key \in DOMAIN stableMap
              THEN /\ Replaying(f)
                   /\ flow[f].captured = stableMap[flow[f].key]
              ELSE ~Replaying(f)

\* a lookup has read the map, and found its key, while a reload waits for
\* the lock
C4_Witness ==
    \E f \in Flows :
        /\ flow[f].pc = "RUnlock"
        /\ Replaying(f)
        /\ wpc["events"] = "ReloadLock"

\* C5: a replay keeps the transaction it looked up: the object is unchanged
\* and the bytes emitted so far are those of its first chunks.
C5_ReplayKeepsCapturedChunks ==
    \A f \in Flows :
        Replaying(f) =>
            /\ txHeap[flow[f].transaction] = flow[f].captured
            /\ flow[f].pc \in {"Pace", "Sleeping", "SetResponse", "Done"} =>
                  flow[f].bodyBuffer =
                      Concat(SubSeq(flow[f].captured.Chunks, 1, flow[f].i))

\* a replay finished with its old chunks after a reload gave the key other ones
C5_Witness ==
    \E f \in Flows :
        /\ flow[f].pc = "Done"
        /\ flow[f].response.playback
        /\ flow[f].response.Body # <<>>
        /\ ~mutexWriter
        /\ flow[f].key \in DOMAIN transactionMap
        /\ txHeap[transactionMap[flow[f].key]].Chunks # flow[f].captured.Chunks

\* ------------------------------------------------------------ claims C6-C8
\* no event that schedules a reload waits in watcher.Events
NoChangeQueued ==
    \A n \in 1..Len(events) :
        Hidden(events[n].Name) \/ ~ReloadOp(events[n].Op)

\* the map a load of manifest d gives: one transaction per resource
ExpectedView(d) ==
    [k \in {Key(d.resources[n].Method, d.resources[n].URL) :
               n \in 1..Len(d.resources)} |->
        LET n == CHOOSE n \in 1..Len(d.resources) :
                     Key(d.resources[n].Method, d.resources[n].URL) = k
        IN  convertResourceToTransaction(d.resources[n])]

MapReflectsDisk == MapView(transactionMap, txHeap) = ExpectedView(disk)

\* an event that was received and not yet followed by the start of a reload
\* is remembered: reloadPending is set, or the handler is about to run doReload
PendingCovers ==
    unserved => (reloadPending \/ wpc["events"] = "DoReload")

\* C6: every received write/create/remove event on a non-hidden file is
\* followed by the start of a reload; reloadPending is not cleared before
\* that; once the changes stop the map ends up as a load of the manifest on
\* disk gives it.
C6_EventFollowedByReload ==
    /\ []PendingCovers
    /\ unserved ~> ~unserved
    /\ <>[](disk.state # "corrupt" => MapReflectsDisk)

\* the ticker has run the reload that an event inside the window left pending
C6_Witness ==
    /\ wpc["ticker"] = "ReloadReturned"
    /\ reloadPending
    /\ ~unserved
    /\ NoChangeQueued
    /\ disk.state = "ok"
    /\ Len(disk.resources) > 0
    /\ MapReflectsDisk

\* C7: a reload begins at least 100 ms after the previous one returned, and
\* at most one goroutine is inside a reload.
C7_Debounced ==
    /\ \A g \in Goroutines :
          wpc[g] \in ReloadPcs => gapAtStart >= DebounceWindow
    /\ Cardinality({g \in Goroutines :
                       wpc[g] \in ReloadPcs \cup {"ReloadReturned"}}) <= 1

\* the ticker is inside a reload while the handler waits with the next event
C7_Witness ==
    /\ wpc["ticker"] \in ReloadPcs
    /\ wpc["events"] = "DoReload"
    /\ reloadPending

InFlight(list, method, url) ==
    {n \in 1..Len(list) : /\ list[n].Method = method
                          /\ list[n].URL = url
                          /\ list[n].ResponseStarted = ZeroTime}

\* flow f's Response hook runs its loop in this step
Responds(f) ==
    rflow[f].pc = "ResponseScan" /\ rflow'[f].pc = "ResponseUnlock"

\* C9: a response for (Method, URL) changes one entry, the last of those
\* with that Method and URL and no ResponseStarted: that entry gets a
\* ResponseStarted, the status, headers and body of the response, every other
\* entry and every other field stays as it was; without such an entry the
\* list stays as it was.
C9_UpdatesLastInFlight ==
    [][\A f \in RFlows :
          Responds(f) =>
              LET S == InFlight(transactions, rflow[f].Method, rflow[f].URL)
              IN  /\ Len(transactions') = Len(transactions)
                  /\ recordedBefore' = recordedBefore
                  /\ S = {} => transactions' = transactions
                  /\ S # {} =>
                        LET k == CHOOSE n \in S : \A m \in S : m <= n
                        IN  /\ \A n \in 1..Len(transactions) :
                                  n # k => transactions'[n] = transactions[n]
                            /\ transactions'[k].Method = transactions[k].Method
                            /\ transactions'[k].URL = transactions[k].URL
                            /\ transactions'[k].RequestStarted =
                                  transactions[k].RequestStarted
                            /\ transactions'[k].ResponseStarted = <<now>>
                            /\ \E response \in Responses :
                                  /\ transactions'[k].StatusCode =
                                        <<response.StatusCode>>
                                  /\ transactions'[k].Body = response.Body
                                  /\ \A h \in DOMAIN response.Header :
                                        Len(response.Header[h]) > 0 =>
                                            /\ h \in DOMAIN
                                                  transactions'[k].RawHeaders
                                            /\ transactions'[k].RawHeaders[h]
                                                  \in {response.Header[h][v] :
                                                       v \in 1..Len(response.Header[h])}
    ]_vars

\* a response was recorded in the later of two entries that waited for it
C9_Witness ==
    \E f \in RFlows :
        /\ rflow[f].pc = "ResponseUnlock"
        /\ rflow[f].i > 1
        /\ transactions[rflow[f].i].StatusCode = <<200>>
        /\ transactions[rflow[f].i].Body = <<1, 2>>
        /\ InFlight(transactions, rflow[f].Method, rflow[f].URL) # {}

\* C10: the list never holds more than 10,000 entries, and it changes only
\* by a new request's entry put at its end: no entry leaves it or changes
\* place.
C10_BoundedInsertionOrder ==
    /\ [](RecordedCount <= MaxTransactions)
    /\ [][/\ recordedBefore' = recordedBefore
          /\ Len(transactions') >= Len(transactions)
          /\ Len(transactions') <= Len(transactions) + 1
          /\ \A n \in 1..Len(transactions) :
                /\ transactions'[n].Method = transactions[n].Method
                /\ transactions'[n].URL = transactions[n].URL
                /\ transactions'[n].RequestStarted =
                      transactions[n].RequestStarted
          /\ Len(transactions') = Len(transactions) + 1 =>
                \E f \in RFlows :
                    /\ rflow[f].pc = "RequestAppend"
                    /\ transactions'[Len(transactions')] = rflow[f].transaction
       ]_vars

\* the list is full and a request was left out of it
C10_Witness ==
    \E f \in RFlows :
        /\ rflow[f].pc = "RequestUnlock"
        /\ ~rflow[f].stored
        /\ RecordedCount = MaxTransactions
        /\ Len(transactions) = Headroom

\* --------------------------------------------------------- claims C11-C13
\* C11: no two Resources of the manifest have the same (Method, URL).
C11_UniqueKeys ==
    \A m, n \in DOMAIN manifest :
        (manifest[m].Method = manifest[n].Method
            /\ manifest[m].URL = manifest[n].URL) => m = n

\* a transaction was appended for a key the manifest held, next to a
\* Resource of another key that a save wrote
C11_Witness ==
    /\ storeOp.kind = "Append"
    /\ storeOp.outcome = "replaced"
    /\ Len(manifest) = 2

\* the inventory was worked on in this step
StoreStep == storeOp' # storeOp

HasPositiveMbps(resource) ==
    /\ resource.MBPS # <<>>
    /\ resource.MBPS[1].bits > 0
    /\ resource.MBPS[1].micros > 0

\* the replace rule: a later Timestamp, or a positive Mbps where the
\* existing Resource has none
Better(new, existing) ==
    \/ new.Timestamp[1] > existing.Timestamp[1]
    \/ HasPositiveMbps(new) /\ ~HasPositiveMbps(existing)

\* the Resources of the manifest with the key of a transaction
Existing(transaction) ==
    {n \in DOMAIN manifest : /\ manifest[n].Method = transaction.Method
                             /\ manifest[n].URL = transaction.URL}

\* the keys of resourceMap for the (Method, URL) of a transaction
Held(transaction) ==
    {k \in DOMAIN resourceMap : /\ resourceMap[k].Method = transaction.Method
                                /\ resourceMap[k].URL = transaction.URL}

C13_DiscardWritesNothing ==
    [][/\ (StoreStep /\ storeOp'.kind = "Append") =>
             LET transaction == storeOp'.input[1]
                 new == convertRecordingTransactionToResource(transaction)
             IN  (\E n \in Existing(transaction) : ~Better(new, manifest[n]))
                     => /\ manifest' = manifest
                        /\ contents' = contents
       /\ (StoreStep /\ storeOp'.kind = "SaveTurn") =>
             LET transaction == storeOp'.input[1]
                 new == convertRecordingTransactionToResource(transaction)
             IN  (\E k \in Held(transaction) : ~Better(new, resourceMap[k]))
                     => /\ manifest' = manifest
                        /\ contents' = contents
                        /\ resourceMap' = resourceMap
    ]_vars

\* an appended transaction was discarded and the content file of its key
\* holds other bytes than its body
C13_Witness ==
    /\ storeOp.kind = "Append"
    /\ storeOp.outcome = "discarded"
    /\ LET transaction == storeOp.input[1]
           path == GetResourceFilePath(transaction.Method, transaction.URL)
       IN  /\ path \in DOMAIN contents
           /\ contents[path] # transaction.Body

\* --------------------------------------------------------- claims C14-C15
\* C14: every Resource of the manifest is that of a request whose response
\* was observed: it has the status of that response.
C14_OnlyAnsweredMaterialized ==
    \A n \in DOMAIN manifest : manifest[n].StatusCode # <<>>

\* C15: while SaveInventory works on its copy of the transactions, no
\* Response hook has written to the header map of an entry the save has yet
\* to read.
C15_NoUpdateDuringSave ==
    \A f \in RFlows :
        ~ /\ saverPc = "persist"
          /\ savePc = "loop"
          /\ rflow[f].pc = "ResponseUnlock"
          /\ rflow[f].i >= NextToSave
          /\ rflow[f].i <= Len(saveCopy)
          /\ transactions[rflow[f].i].RawHeaders
                 # saveCopy[rflow[f].i].RawHeaders

\* ---------------------------------------------------------------- C16
\* the steps of playbackTransaction: from its entry to f.Response = response
InPlayback(f) == flow[f].pc \in {"Playback", "Pace", "Sleeping", "SetResponse"}

\* C16: a replay holds no lock on the transaction map while it paces or
\* sleeps: a flow is a reader of the map's mutex only between RLock and
\* RUnlock around the lookup (or around the key listing of a miss), never
\* inside playbackTransaction, and no flow ever is the writer; so the readers
\* a reload's Lock waits for are never paced replays.
C16_NoLockWhilePacing ==
    /\ \A f \in Flows : InPlayback(f) => f \notin mutexReaders
    /\ \A f \in mutexReaders : flow[f].pc \in {"Lookup", "RUnlock", "MissRUnlock"}

\* a replay sleeps for pacing while a reload holds the write lock
C16_Witness ==
    \E f \in Flows : flow[f].pc = "Sleeping" /\ mutexWriter

\* ---------------------------------------------------------------- C17
\* the state of the per-flow state machine a flow record is in
Phase(fl) ==
    CASE fl.pc = "Idle" -> "Idle"
      [] fl.pc \in {"RLock", "Lookup", "RUnlock"} -> "Matching"
      [] fl.pc \in {"Playback", "Sleeping"} -> "Pacing"
      [] fl.pc = "Pace" ->
            IF fl.i < Len(txHeap[fl.transaction].Chunks)
            THEN "Pacing" ELSE "Flushing"
      [] fl.pc = "SetResponse" -> "Flushing"
      [] fl.pc \in {"MissRLock", "MissRUnlock", "Upstream"} -> "Forwarding"
      [] fl.pc = "Done" -> "Done"

\* the edges of Idle -> Matching -> (Pacing -> Flushing | Forwarding) -> Done,
\* and Done -> Idle for the next flow of the connection
PhaseEdges ==
    {<<"Idle", "Matching">>, <<"Matching", "Pacing">>,
     <<"Matching", "Forwarding">>, <<"Pacing", "Flushing">>,
     <<"Flushing", "Done">>, <<"Forwarding", "Done">>, <<"Done", "Idle">>}

\* the branches a flow has entered since its lookup
Branch(fl) ==
    CASE Phase(fl) \in {"Pacing", "Flushing"} -> "hit"
      [] Phase(fl) = "Forwarding" -> "miss"
      [] Phase(fl) = "Done" -> IF fl.response.playback THEN "hit" ELSE "miss"
      [] OTHER -> "none"

PhaseOf(f) == Phase(flow[f])

BranchOf(f) == Branch(flow[f])

\* C17: every step of a flow stays in its state or follows an edge of
\* Idle -> Matching -> (Hit: Pacing -> Flushing) | (Miss: Forwarding) -> Done;
\* the branch is the hit branch exactly when the lookup found a transaction
\* and a flow never changes branch; f.Response is assigned once, by the step
\* that enters Done, and is set in Done.
C17_FlowStateMachine ==
    [][\A f \in Flows :
          /\ \/ PhaseOf(f) = PhaseOf(f)'
             \/ <<PhaseOf(f), PhaseOf(f)'>> \in PhaseEdges
          /\ BranchOf(f)' = "hit" =>
                 flow'[f].transaction # Nil /\ BranchOf(f) # "miss"
          /\ BranchOf(f)' = "miss" =>
                 flow'[f].transaction = Nil /\ BranchOf(f) # "hit"
          /\ PhaseOf(f)' = "Done" => flow'[f].response # NoResponse
          /\ PhaseOf(f)' # "Done" => flow'[f].response = NoResponse
          /\ flow'[f].response # flow[f].response =>
                 \/ flow[f].response = NoResponse /\ PhaseOf(f)' = "Done"
                 \/ PhaseOf(f) = "Done" /\ PhaseOf(f)' = "Idle"]_vars

\* a flow is Done through the hit branch, its response set after it paced
\* more than one chunk
C17_Witness ==
    \E f \in Flows :
        /\ flow[f].pc = "Done"
        /\ flow[f].response.playback
        /\ Len(flow[f].sent) > 1
        /\ flow[f].response.Body # <<>>

\* ---------------------------------------------------------------- C18
\* C18: once the client of a pacing replay has disconnected, the replay
\* begins no pacing sleep: the cancellation is noticed at the next chunk
\* boundary, so no chunk whose wait had not begun at the disconnect is slept
\* for, and the inventory on disk is what it was.  The code does not have this property: the chunk
\* loop of playbackTransaction never looks at the connection.
C18_DisconnectAbortsPacing ==
    \A f \in Flows :
        cancelledAt[f] # Connected =>
            ~(flow[f].pc = "Sleeping" /\ flow[f].i >= cancelledAt[f][1])

\* ---------------------------------------------------------------- C19
\* C19: a reload whose read finds inventory.json partly written does not
\* fail on that read: the step either stays in the load, to read again, or
\* leaves it without an error.  The code does not have this property:
\* loadInventory reads the manifest once and returns the decoding error.
C19_PartialReadRetried ==
    [][\A g \in Goroutines :
          (wpc[g] = "LoadInventory" /\ disk.state = "corrupt") =>
              \/ wpc'[g] = "LoadInventory"
              \/ ~reloadErr']_vars

\* ---------------------------------------------------------------- C20
\* C20: every write, create or remove of a non-hidden file in a directory
\* beneath the inventory directory, a directory made after the watcher
\* started included, puts an event in the watcher's queue that the handler
\* answers with doReload.  The code does not have this property: the watch
\* list is the set of directories that existed when the proxy started.
C20_EveryChangeQueuesReload ==
    [][disk' # disk =>
          /\ Len(events') = Len(events) + 1
          /\ ~Hidden(events'[Len(events')].Name)
          /\ ReloadOp(events'[Len(events')].Op)]_vars

\* ---------------------------------------------------------------- C21
\* C21: when the path codec fails for a recorded transaction, the save
\* drops that transaction alone: its loop goes on with the Resources
\* gathered so far, the other transactions are persisted and the manifest is
\* written.  The code does not have this property: the save returns the
\* error at once.
C21_CodecFailureDropsOne ==
    storeOp.outcome = "error" => savePc = "loop"

\* ---------------------------------------------------------------- C22
\* a flow whose Request hook has returned through the miss branch
MissDone(f) == flow[f].pc = "Done" /\ ~flow[f].response.playback

\* C22: a miss always ends with a response set on the flow; when building
\* the upstream request failed it is a 500, when sending it or reading the
\* upstream's body failed it is a 502, both with a text/plain body that
\* carries the message; without a failure it is the upstream's answer.
C22_MissAlwaysAnswered ==
    \A f \in Flows :
        MissDone(f) =>
            /\ flow[f].response # NoResponse
            /\ flow[f].response.StatusCode = upstream[f].StatusCode
            /\ upstream[f].failure = "build" => upstream[f].StatusCode = 500
            /\ upstream[f].failure \in {"send", "read"} =>
                   upstream[f].StatusCode = 502
            /\ upstream[f].failure # "none" =>
                   upstream[f].ContentType = "text/plain" /\ upstream[f].Body # ""
            /\ upstream[f].failure = "none" =>
                   \E resp \in UpstreamAnswers :
                       /\ upstream[f].StatusCode = resp.StatusCode
                       /\ upstream[f].ContentType = resp.ContentType
                       /\ upstream[f].Body = resp.Body

\* a miss ended with the 502 of a failed read of the upstream's body
C22_Witness ==
    \E f \in Flows :
        /\ MissDone(f)
        /\ upstream[f].failure = "read"
        /\ flow[f].response.StatusCode = 502

\* ---------------------------------------------------------------- C23
\* the store has just taken a recorded transaction into the inventory
Stored ==
    /\ storeOp.kind \in {"SaveTurn", "Append"}
    /\ storeOp.outcome \in {"added", "replaced"}

\* C23: when a recorded transaction has been taken into the inventory, the
\* playback of its method and URL answers with its status and with the
\* bytes of its body: the content file the Resource names holds the body
\* that was recorded with it.  The code does not have this property: the
\* save loop lets a later transaction replace the Resource of its key and
\* leaves the content file of the earlier one.
C23_PlaybackReturnsRecorded ==
    Stored =>
        LET transaction == storeOp.input[1]
            resource == convertRecordingTransactionToResource(transaction)
        IN  /\ PlaybackStatus(resource) = transaction.StatusCode[1]
            /\ loadAndCompressContent(resource, contents) = transaction.Body

\* ---------------------------------------------------------------- C24
\* the (method, url) a round trip is to give back: the method in upper
\* case, scheme and host in lower case, the rest as it was
Normalized(key) ==
    [Method |-> ToUpper(key.Method),
     URL |-> [key.URL EXCEPT !.Scheme = ToLower(key.URL.Scheme),
                             !.Hostname = ToLower(key.URL.Hostname)]]

Sanitizable(str) == \E i \in DOMAIN str : str[i] \in {"<", ">", ":", "\"", "|", "?", "*"}

\* C24: for a URL whose query is shorter than MaxParamLength and that holds
\* no sanitizable character, FilePathToMethodURL(MethodURLToFilePath(method,
\* url)) is the normalized (method, url), a trailing "/" neither added nor
\* removed.  The code does not have this property: a path without extension
\* comes back with a "/" appended.
C24_RoundTrip ==
    (/\ codecPc = "decoded"
     /\ Len(codecIn.URL.RawQuery) < MaxParamLength
     /\ ~Sanitizable(codecIn.URL.Path)
     /\ ~Sanitizable(codecIn.URL.RawQuery))
        => codecOut = Normalized(codecIn)

\* ---------------------------------------------------------------- C25
\* resource.GetResourceFilePath: the content file path of a key
ContentFilePathOf(key) == SanitizeFilePath(MethodURLToFilePath(key.Method, key.URL))

\* C25: no key other than the one encoded, among those the codec accepts,
\* has the same content file path.  The code does not have this property:
\* "/a" and "/a/" are both stored in a/index.html, and the port and the
\* case of the method do not reach the path.
C25_DistinctKeysDistinctPaths ==
    codecPc = "encoded" =>
        \A other \in [Method : CodecMethods, URL : CodecURLs] :
            (other # codecIn /\ ~ContentFilePathOf(other).err) =>
                ContentFilePathOf(other) # SanitizeFilePath(codecPath)

\* C26: the chunks createBodyChunks returns, concatenated in order, are the
\* body it was given; every chunk is non-empty and no longer than ChunkSize;
\* an empty body gives no chunks.
C26_ChunksRebuildBody ==
    planPc = "planned" =>
        /\ Concat(planChunks) = planBody
        /\ \A i \in 1..Len(planChunks) :
              /\ Len(planChunks[i].Chunk) >= 1
              /\ Len(planChunks[i].Chunk) <= ChunkSize
        /\ (planBody = <<>> => planChunks = <<>>)

\* a body that needs several chunks, the last of them short
C26_Witness ==
    /\ planPc = "planned"
    /\ Len(planBody) > ChunkSize
    /\ Len(planBody) % ChunkSize # 0
    /\ Len(planChunks) > 1

\* C27: TargetOffset is strictly increasing from one chunk to the next, and
\* the last chunk's TargetOffset is TTFB plus the total transfer time.
C27_OffsetsIncreaseToTotal ==
    (planPc = "planned" /\ planChunks # <<>>) =>
        /\ \A i \in 1..(Len(planChunks) - 1) :
              planChunks[i].TargetOffset < planChunks[i + 1].TargetOffset
        /\ planChunks[Len(planChunks)].TargetOffset =
              planResource.TTFBMS * Millisecond
                + TotalTransferTime(Len(planBody), planResource.MBPS)

\* the bytes the transaction will send
SentBody == Concat(convTransaction[1].Chunks)

\* C28: the Content-Length header of a transaction built from the inventory
\* is the length of the body it will send, whatever value was stored.
C28_ContentLengthIsBodyLength ==
    (convPc = "done" /\ convTransaction[1].RawHeaders.ContentLength # <<>>) =>
        convTransaction[1].RawHeaders.ContentLength[1] = Len(SentBody)

\* the body came from the content file and was transcoded from UTF-8 to
\* ContentCharset without error
Restored ==
    /\ convResource.ContentUTF8 = <<>>
    /\ convResource.ContentBase64 = <<>>
    /\ convResource.ContentFilePath # <<>>
    /\ convResource.ContentFilePath[1] \in DOMAIN convFiles
    /\ convResource.ContentCharset # <<>>
    /\ convResource.ContentCharset[1] \notin {"", "utf-8"} \cup FailedCharsets
    /\ ~convertFromUTF8(convFiles[convResource.ContentFilePath[1]],
                        convResource.ContentCharset[1]).err

\* C29: the Content-Type is rewritten only when the body was reverse
\* transcoded with success; otherwise it is the stored Content-Type.
C29_CharsetOnlyWhenRestored ==
    (convPc = "done" /\ ~Restored) =>
        convTransaction[1].RawHeaders.ContentType
            = convResource.RawHeaders.ContentType

\* the body a content source yields once re-encoded (as it is when the
\* encoder fails)
Encoded(decodedBody) ==
    LET c == compressContent(decodedBody, convResource)
    IN  IF c.err THEN decodedBody ELSE c.data

\* C30: the replayed body comes from ContentUTF8 if present, otherwise from
\* ContentBase64 if present, otherwise from ContentFilePath.
C30_ContentPrecedence ==
    convPc = "done" =>
        /\ convResource.ContentUTF8 # <<>> =>
              SentBody = Encoded(convResource.ContentUTF8[1])
        /\ (convResource.ContentUTF8 = <<>> /\ convResource.ContentBase64 # <<>>) =>
              \/ SentBody = <<>>
              \/ /\ convResource.ContentBase64[1].valid
                 /\ SentBody = Encoded(convResource.ContentBase64[1].data)
        /\ \A i \in 1..Len(SentBody) :
              /\ SentBody[i] = 2 => convResource.ContentUTF8 = <<>>
              /\ SentBody[i] \in {3, 4, 5, 6} =>
                    /\ convResource.ContentUTF8 = <<>>
                    /\ convResource.ContentBase64 = <<>>

\* all three sources present and non-empty, and the inline text was sent
C30_Witness ==
    /\ convPc = "done"
    /\ convResource.ContentUTF8 = <<<<1, 1, 1>>>>
    /\ convResource.ContentBase64 # <<>>
    /\ convResource.ContentBase64[1].valid
    /\ convResource.ContentBase64[1].data # <<>>
    /\ convResource.ContentFilePath # <<>>
    /\ ContentFile \in DOMAIN convFiles
    /\ convFiles[ContentFile] # <<>>
    /\ convResource.ContentEncoding = <<>>
    /\ SentBody = <<1, 1, 1>>

\* ---------------------------------------------------------------- C31
\* C31: every Resource of the manifest carries a strictly positive Mbps or
\* no Mbps at all.
C31_MbpsPositiveOrUnset ==
    \A n \in DOMAIN manifest :
        manifest[n].MBPS = <<>> \/ Positive(manifest[n].MBPS[1])

\* ---------------------------------------------------------------- C32
\* C32: a recorded response has ResponseFinished = ResponseStarted +
\* (elapsed - 50 ms) when the time elapsed since RequestStarted is more than
\* 100 ms, and ResponseStarted + 10 ms otherwise.
C32_ResponseFinishedRule ==
    \A n \in DOMAIN transactions :
        ~IsZero(transactions[n].ResponseStarted) =>
            LET elapsed == Sub(transactions[n].ResponseStarted,
                               transactions[n].RequestStarted)
                transfer == IF elapsed > 100 * Millisecond
                            THEN elapsed - 50 * Millisecond
                            ELSE 10 * Millisecond
            IN  transactions[n].ResponseFinished
                    = <<transactions[n].ResponseStarted[1] + transfer>>

\* ---------------------------------------------------------------- C33
\* the response an entry was recorded from: the one whose status it carries
ResponseOf(transaction) ==
    CHOOSE r \in Responses : <<r.StatusCode>> = transaction.StatusCode

\* the entries of the list that a response was recorded on
Answered == {n \in DOMAIN transactions : ~IsZero(transactions[n].ResponseStarted)}

\* C33 as stated: for a header name with several values, RawHeaders holds
\* the last value.
C33_LastHeaderValueKept ==
    \A n \in Answered :
        LET header == ResponseOf(transactions[n]).Header
        IN  \A name \in DOMAIN header :
                Len(header[name]) > 0 =>
                    /\ name \in DOMAIN transactions[n].RawHeaders
                    /\ transactions[n].RawHeaders[name]
                          = header[name][Len(header[name])]

\* C33 amended: for a header name with several values, RawHeaders holds the
\* first value.
C33_FirstHeaderValueKept ==
    \A n \in Answered :
        LET header == ResponseOf(transactions[n]).Header
        IN  \A name \in DOMAIN header :
                Len(header[name]) > 0 =>
                    /\ name \in DOMAIN transactions[n].RawHeaders
                    /\ transactions[n].RawHeaders[name] = header[name][1]

\* a response with two Set-Cookie values was recorded
C33_Witness ==
    \E n \in Answered :
        /\ "Set-Cookie" \in DOMAIN ResponseOf(transactions[n]).Header
        /\ Len(ResponseOf(transactions[n]).Header["Set-Cookie"]) > 1
        /\ transactions[n].RawHeaders["Set-Cookie"] = "a=1"

\* ---------------------------------------------------------------- C34
\* C34: when SaveInventory has returned and the requests recorded had
\* pairwise distinct URLs, the i-th Resource of the manifest is that of the
\* i-th recorded request.
C34_ManifestInRecordingOrder ==
    (/\ Exited
     /\ \A i, j \in DOMAIN saveCopy :
           saveCopy[i].URL = saveCopy[j].URL => i = j) =>
        /\ Len(manifest) = Len(saveCopy)
        /\ \A i \in DOMAIN saveCopy :
              /\ manifest[i].Method = saveCopy[i].Method
              /\ manifest[i].URL = saveCopy[i].URL

\* ---------------------------------------------------------------- C35
\* C35: the TTFB_ms of a Resource is between 0 and 3,600,000; a
\* ResponseStarted - RequestStarted that is negative or above 3,600,000 ms
\* is stored as 0, any other as it is.
C35_TTFBClamped ==
    ttfbPc = "done" =>
        /\ ttfbOut >= 0
        /\ ttfbOut <= 3600000
        /\ (~IsZero(ttfbIn.RequestStarted) /\ ~IsZero(ttfbIn.ResponseStarted)) =>
              LET d == ttfbIn.ResponseStarted[1] - ttfbIn.RequestStarted[1]
              IN  ttfbOut = IF d < 0 \/ d > 3600000 THEN 0 ELSE d

\* a response recorded more than an hour after its request
C35_Witness ==
    /\ ttfbPc = "done"
    /\ ~IsZero(ttfbIn.RequestStarted)
    /\ ~IsZero(ttfbIn.ResponseStarted)
    /\ ttfbIn.ResponseStarted[1] - ttfbIn.RequestStarted[1] > 3600000
    /\ ttfbOut = 0

\* ---------------------------------------------------------------- C36
\* C36: a flow's response is recorded on the entry that flow's request
\* appended and on no other; the response of a flow whose request was
\* dropped is recorded on no entry.
C36_ResponseOnOwnEntry ==
    \A f \in RFlows :
        rflow[f].pc = "ResponseUnlock" => rflow[f].i = rflow[f].slot

\* ---------------------------------------------------------------- C37
\* C37: a reload that fails, because inventory.json cannot be read or parsed,
\* releases the lock with the transaction map it found when it began, so the
\* hits served before are served after.  The code does not have this
\* property: ReloadInventory replaces the map by an empty one before it calls
\* loadInventory, and returns the error with the map still empty.
C37_FailedReloadKeepsMap ==
    [][\A g \in Goroutines :
          (wpc[g] = "ReloadUnlock" /\ wpc'[g] = "ReloadReturned" /\ reloadErr) =>
              stableMap' = stableMap]_vars


\* ---------------------------------------------------------------- C38
\* C38: when SaveRecordedTransactions has written the manifest, the content
\* file of every Resource in it holds the body of the transaction that the
\* Resource was made from, also when the list held several transactions of
\* its (Method, URL).  The code does not have this property: the transaction
\* that replaces the Resource of its key does not have its body saved.
C38_FileOfKeptTransaction ==
    storeOp.kind = "SaveEnd" =>
        \A n \in DOMAIN manifest :
            \E transaction \in StoreRecordings :
                /\ convertRecordingTransactionToResource(transaction) = manifest[n]
                /\ manifest[n].ContentFilePath[1] \in DOMAIN contents
                /\ contents[manifest[n].ContentFilePath[1]] = transaction.Body


\* ---------------------------------------------------------------- C39
\* C39: the body file of a URL the path codec accepts is written inside
\* contents/<method>/<scheme>/<host>/, the three in lower case, whatever the
\* URL's path.  The code does not have this property: filepath.Join resolves
\* the ".." elements of the URL's path against the directories before them.
C39_WrittenInsideHostDirectory ==
    writePc = "written" =>
        /\ Len(writtenPath) > 4
        /\ SubSeq(writtenPath, 1, 4) =
               <<Chars("contents"), Chars(ToLower(codecIn.Method)),
                 Chars(ToLower(codecIn.URL.Scheme)),
                 Chars(ToLower(codecIn.URL.Hostname))>>


\* ---------------------------------------------------------------- C40
\* C40: when AppendRecordedTransaction has replaced the Resource of a key,
\* the entry of the manifest for that key is the one the same transaction
\* gives when it is appended to an empty manifest, ContentTypeCharset and
\* ContentCharset included.  The code does not have this property: the
\* entry is overwritten with a copy of the Resource taken before the body is
\* saved, and the charsets are set on the original afterwards.
C40_ReplacedCarriesCharsets ==
    appendPc = "replaced" =>
        \E i \in DOMAIN appendOut :
            appendOut[i] = AppendedResources(<<>>, appendIn[1])[1]

====
